---------------------------- MODULE Spec2Model ----------------------------
(***************************************************************************)
(* Model of the vector retrieval and personalization core of knytt:        *)
(*   - FAISSIndexManager / FAISSIndexBuilder  (index lifecycle)            *)
(*   - SimilaritySearch / FilteredSimilaritySearch  (k-NN queries)         *)
(*   - FeedbackHandler, feedback router  (per-user embedding updates)      *)
(*   - UserEmbeddingBuilder  (long-term profile rebuilt from history)      *)
(*   - SessionEmbedding / SessionManager  (rolling session window)         *)
(*                                                                         *)
(* Embeddings are exact unit vectors with rational coordinates, kept as    *)
(* integer pairs scaled by 5, so that squared L2 distances are exact      *)
(* integers (in units of 1/25).                                            *)
(***************************************************************************)
EXTENDS Integers, Sequences, FiniteSets, TLC

(***************************************************************************)
(* Bounds of the model.                                                    *)
(***************************************************************************)
MaxProducts == 2      \* products in the catalog of the index model
MaxTime == 1          \* clock ticks of the index model
MaxK == 2             \* largest k a search asks for

Products == 1..MaxProducts
Threads == {"t1", "t2"}

(***************************************************************************)
(* Embedding vectors.  Every vector is <<x, y>> with x^2 + y^2 = 25.       *)
(***************************************************************************)
UnitVectors ==
    <<  <<5, 0>>, <<4, 3>>, <<3, 4>>, <<0, 5>>,
        <<-3, 4>>, <<-4, 3>>, <<-5, 0>>, <<-4, -3>> >>

\* The embedding stored in the database for product p.
Emb(p) == UnitVectors[p]

\* Squared L2 distance of two vectors, in units of 1/25.  This is the
\* number IndexFlatL2 reports for a neighbour.
L2sq(a, b) == (a[1] - b[1]) * (a[1] - b[1]) + (a[2] - b[2]) * (a[2] - b[2])

(***************************************************************************)
(* Product identifiers.  Rows fetched from the database carry UUID         *)
(* objects; identifiers that went through str() are strings.               *)
(***************************************************************************)
Uuid(p) == <<"uuid", p>>
Str(id) == <<"str", id[2]>>
ProductIds == {Uuid(p) : p \in Products} \cup {Str(Uuid(p)) : p \in Products}

(***************************************************************************)
(* Zero-based arrays (Python lists, numpy arrays, dicts keyed 0..n-1).     *)
(***************************************************************************)
EmptyArr == [i \in {} |-> 0]
ArrLen(a) == Cardinality(DOMAIN a)

\* The elements of a set of integers in ascending order (ORDER BY).
SortedArr(S) ==
    [i \in 0..(Cardinality(S) - 1) |->
        CHOOSE x \in S : Cardinality({y \in S : y < x}) = i]

(***************************************************************************)
(* State.                                                                  *)
(***************************************************************************)
VARIABLES
    \* --- FAISSIndexManager instance state ---
    index,            \* self.index
    id_mapping,       \* self.id_mapping       position -> product id
    reverse_mapping,  \* self.reverse_mapping  product id -> position
    metadata,         \* self.metadata
    last_rebuild,     \* self.last_rebuild (NoTime when None)
    index_lock,       \* owner of self.index_lock, or "free"
    \* --- files under config.storage.faiss_index_path ---
    disk,
    \* --- environment and threads ---
    now,              \* datetime.utcnow()
    pc,               \* position of each thread in the method it runs
    loc,              \* local variables of each thread
    ensureLoads,      \* loads/builds run by ensure_index_loaded since the index was last None
    \* --- FAISSIndexManager._instance and the threads constructing it ---
    mgr

indexVars == <<index, id_mapping, reverse_mapping, metadata,
               last_rebuild, index_lock, disk, now, pc, loc, ensureLoads, mgr>>

VARIABLES
    \* --- FilteredSimilaritySearch.search_with_filters: arguments and results ---
    filterIn,         \* the catalog, the filter, the query vector and k
    filterOut         \* strategy -> what search_with_filters returned

filterVars == <<filterIn, filterOut>>

VARIABLES
    \* --- SessionManager ---
    sessions,         \* self.sessions: user -> SessionEmbedding
    clock,            \* datetime.now(), in minutes
    sessionOut,       \* the last call on the manager and what it returned
    expiredAt         \* user -> when a call last found the user's session timed out

sessionVars == <<sessions, clock, sessionOut, expiredAt>>

VARIABLES
    \* --- embedding cache and the feedback handlers working on it ---
    cache,            \* the user's cached long-term and session embeddings
    hpc,              \* position of each handler
    hloc,             \* local variables of each handler
    base,             \* the cache when the handlers now running started
    rounds            \* batches of events processed so far

feedbackVars == <<cache, hpc, hloc, base, rounds>>

VARIABLES
    \* --- user_interactions and user_embeddings tables, for one user ---
    user_interactions, \* rows of user_interactions, oldest first
    user_embedding,    \* the long_term row of user_embeddings
    today,             \* datetime.utcnow(), in days
    lastMeta           \* metadata returned by the last update_user_embedding

profileVars == <<user_interactions, user_embedding, today, lastMeta>>

VARIABLES
    \* --- RedisCache and the Redis server behind it ---
    redis             \* self.client, the server's keys, and whether it can be reached

redisVars == <<redis>>

VARIABLES
    \* --- a call of a function of the library: arguments and result ---
    callIn,
    callOut

callVars == <<callIn, callOut>>

vars == <<indexVars, filterVars, sessionVars, feedbackVars, profileVars,
          redisVars, callVars>>

NoTime == 0 - 1
NoPos == 0 - 1
NoneIndex == [loaded |-> FALSE, vecs |-> EmptyArr]
NoMetadata == [has_created_at |-> FALSE, created_at |-> NoTime]
NoFile == [exists |-> FALSE, content |-> EmptyArr]
NoMetaFile == [exists |-> FALSE, created_at |-> NoTime, num_vectors |-> 0]
NoBuild == [ok |-> FALSE, index |-> NoneIndex, id_mapping |-> EmptyArr]
ZeroVec == <<0, 0>>

\* index.ntotal
ntotal(ix) == ArrLen(ix.vecs)

\* self.dimension of the builder: the dimension the model's vectors have.
dimension == Len(UnitVectors[1])

\* Local variables of a thread.  before and cold record what the call found
\* when it started: the manager's fields and statistics, and whether the
\* snapshot files were absent.
LocInit ==
    [op |-> "none", q |-> ZeroVec, k |-> 0, pid |-> Uuid(0), exclude_self |-> FALSE,
     pos |-> NoPos, lidx |-> NoneIndex, lmap |-> EmptyArr,
     embeddings |-> EmptyArr, product_ids |-> EmptyArr, built |-> NoBuild,
     results |-> <<>>, missed |-> 0, vector |-> ZeroVec, outcome |-> "none",
     before |-> <<>>, cold |-> FALSE]

(***************************************************************************)
(* FAISSIndexBuilder.build_index                                           *)
(***************************************************************************)
\* build_index with the validation of its input left out.
build_index_unvalidated(embeddings, product_ids) ==
    [ok |-> TRUE,
     index |-> [loaded |-> TRUE, vecs |-> embeddings],
     id_mapping |-> [i \in DOMAIN product_ids |-> product_ids[i]]]

build_index(embeddings, product_ids) ==
    IF ArrLen(embeddings) = 0
    THEN NoBuild
    ELSE IF Len(embeddings[0]) # dimension
    THEN NoBuild
    ELSE IF ArrLen(embeddings) # ArrLen(product_ids)
    THEN NoBuild
    ELSE [ok |-> TRUE,
          index |-> [loaded |-> TRUE, vecs |-> embeddings],
          id_mapping |-> [i \in DOMAIN product_ids |-> product_ids[i]]]

\* reverse_mapping = {pid: idx for idx, pid in id_mapping.items()}
ReverseOf(m) ==
    [id \in {m[i] : i \in DOMAIN m} |->
        CHOOSE i \in DOMAIN m : m[i] = id /\ \A j \in DOMAIN m : m[j] = id => j <= i]

(***************************************************************************)
(* FAISSIndexManager.load_embeddings_from_db                               *)
(*                                                                         *)
(* The product_embeddings table belongs to the catalog store; what it holds *)
(* when the query runs is an input: rows is the set of products with a     *)
(* text embedding, wide says that the stored embeddings come from a model  *)
(* of another dimension (one coordinate too many).                         *)
(***************************************************************************)
RowEmbedding(p, wide) == IF wide THEN Append(Emb(p), 0) ELSE Emb(p)

load_embeddings_from_db(rows, wide) ==
    LET ids == SortedArr(rows)
    IN  [ok |-> rows # {},
         embeddings |-> [i \in DOMAIN ids |-> RowEmbedding(ids[i], wide)],
         product_ids |-> [i \in DOMAIN ids |-> Uuid(ids[i])]]

(***************************************************************************)
(* FAISSIndexManager.get_stats                                             *)
(***************************************************************************)
get_stats ==
    IF ~index.loaded
    THEN [status |-> "not_loaded", num_vectors |-> 0, num_products |-> 0,
          last_rebuild |-> NoTime]
    ELSE [status |-> "loaded", num_vectors |-> ntotal(index),
          num_products |-> ArrLen(id_mapping), last_rebuild |-> last_rebuild]

(***************************************************************************)
(* Thread bookkeeping.                                                     *)
(***************************************************************************)
Goto(t, label) == pc' = [pc EXCEPT ![t] = label]
SetLoc(t, r) == loc' = [loc EXCEPT ![t] = r]

\* threading.RLock: free, or already held by the caller.
CanAcquire(t) == index_lock \in {"free", t}

\* The method ends; outcome is "ok" or the exception that left it.
Finish(t, r, outcome) ==
    /\ Goto(t, "done")
    /\ SetLoc(t, [r EXCEPT !.outcome = outcome])

\* The caller takes the result; the thread is free for the next call.
Return(t) ==
    /\ pc[t] = "done"
    /\ Goto(t, "idle")
    /\ SetLoc(t, LocInit)
    /\ UNCHANGED <<index, id_mapping, reverse_mapping, metadata,
                   last_rebuild, index_lock, disk, now, ensureLoads>>
    /\ UNCHANGED <<mgr, filterVars, sessionVars, feedbackVars, profileVars, redisVars, callVars>>

(***************************************************************************)
(* FAISSIndexManager.build_index_from_db                                   *)
(***************************************************************************)
CallBuildIndexFromDb(t) ==
    /\ pc[t] = "idle"
    /\ Goto(t, "b_fetch")
    /\ SetLoc(t, [LocInit EXCEPT !.op = "build_index_from_db",
                                 !.before = <<index, id_mapping, reverse_mapping,
                                              last_rebuild, get_stats>>])
    /\ UNCHANGED <<index, id_mapping, reverse_mapping, metadata,
                   last_rebuild, index_lock, disk, now, ensureLoads>>
    /\ UNCHANGED <<mgr, filterVars, sessionVars, feedbackVars, profileVars, redisVars, callVars>>

\* embeddings, product_ids = self.load_embeddings_from_db(session)
BuildFetch(t) ==
    /\ pc[t] = "b_fetch"
    /\ \E table \in SUBSET Products, wide \in BOOLEAN :
       LET rows == load_embeddings_from_db(table, wide)
       IN  IF rows.ok
           THEN /\ Goto(t, "b_lock")
                /\ SetLoc(t, [loc[t] EXCEPT !.embeddings = rows.embeddings,
                                            !.product_ids = rows.product_ids])
           ELSE Finish(t, loc[t], "FAISSIndexManagerError")
    /\ UNCHANGED <<index, id_mapping, reverse_mapping, metadata,
                   last_rebuild, index_lock, disk, now, ensureLoads>>
    /\ UNCHANGED <<mgr, filterVars, sessionVars, feedbackVars, profileVars, redisVars, callVars>>

\* with self.index_lock:
BuildLock(t) ==
    /\ pc[t] = "b_lock"
    /\ CanAcquire(t)
    /\ index_lock' = t
    /\ Goto(t, "b_build")
    /\ UNCHANGED <<index, id_mapping, reverse_mapping, metadata,
                   last_rebuild, disk, now, loc, ensureLoads>>
    /\ UNCHANGED <<mgr, filterVars, sessionVars, feedbackVars, profileVars, redisVars, callVars>>

\* index, id_mapping = self.builder.build_index(embeddings, product_ids)
BuildBuild(t) ==
    /\ pc[t] = "b_build"
    /\ LET built == build_index(loc[t].embeddings, loc[t].product_ids)
       IN  IF built.ok
           THEN /\ Goto(t, "b_swap")
                /\ SetLoc(t, [loc[t] EXCEPT !.built = built])
                /\ UNCHANGED index_lock
           ELSE /\ Finish(t, loc[t], "FAISSIndexBuilderError")
                /\ index_lock' = "free"
    /\ UNCHANGED <<index, id_mapping, reverse_mapping, metadata,
                   last_rebuild, disk, now, ensureLoads>>
    /\ UNCHANGED <<mgr, filterVars, sessionVars, feedbackVars, profileVars, redisVars, callVars>>

\* self.index = index; self.id_mapping = id_mapping;
\* self.reverse_mapping = reverse_mapping; self.last_rebuild = datetime.utcnow()
BuildSwap(t) ==
    /\ pc[t] = "b_swap"
    /\ index' = loc[t].built.index
    /\ id_mapping' = loc[t].built.id_mapping
    /\ reverse_mapping' = ReverseOf(loc[t].built.id_mapping)
    /\ last_rebuild' = now
    /\ ensureLoads' = IF loc[t].op = "ensure_index_loaded" THEN ensureLoads + 1 ELSE ensureLoads
    /\ Goto(t, "b_save_index")
    /\ UNCHANGED <<metadata, index_lock, disk, now, loc>>
    /\ UNCHANGED <<mgr, filterVars, sessionVars, feedbackVars, profileVars, redisVars, callVars>>

(***************************************************************************)
(* FAISSIndexBuilder.save_index: three files written one after the other.  *)
(* Each write either succeeds or raises (OSError), leaving the files       *)
(* written so far in place.                                                *)
(***************************************************************************)
SaveFails(t) ==
    /\ pc[t] \in {"b_save_index", "b_save_mapping", "b_save_meta"}
    /\ Finish(t, loc[t], "OSError")
    /\ index_lock' = "free"
    /\ UNCHANGED <<index, id_mapping, reverse_mapping, metadata,
                   last_rebuild, disk, now, ensureLoads>>
    /\ UNCHANGED <<mgr, filterVars, sessionVars, feedbackVars, profileVars, redisVars, callVars>>

\* faiss.write_index(index, str(index_file))
SaveIndexFile(t) ==
    /\ pc[t] = "b_save_index"
    /\ disk' = [disk EXCEPT !.index = [exists |-> TRUE, content |-> loc[t].built.index.vecs]]
    /\ Goto(t, "b_save_mapping")
    /\ UNCHANGED <<index, id_mapping, reverse_mapping, metadata,
                   last_rebuild, index_lock, now, loc, ensureLoads>>
    /\ UNCHANGED <<mgr, filterVars, sessionVars, feedbackVars, profileVars, redisVars, callVars>>

\* np.savez(mapping_file, positions=..., product_ids=[str(pid) ...])
SaveMappingFile(t) ==
    /\ pc[t] = "b_save_mapping"
    /\ LET m == loc[t].built.id_mapping
       IN  disk' = [disk EXCEPT !.mapping =
                        [exists |-> TRUE, content |-> [i \in DOMAIN m |-> Str(m[i])]]]
    /\ Goto(t, "b_save_meta")
    /\ UNCHANGED <<index, id_mapping, reverse_mapping, metadata,
                   last_rebuild, index_lock, now, loc, ensureLoads>>
    /\ UNCHANGED <<mgr, filterVars, sessionVars, feedbackVars, profileVars, redisVars, callVars>>

\* np.save(metadata_file, metadata); the with block ends and the lock is released
SaveMetaFile(t) ==
    /\ pc[t] = "b_save_meta"
    /\ disk' = [disk EXCEPT !.meta = [exists |-> TRUE, created_at |-> now,
                                      num_vectors |-> ntotal(loc[t].built.index)]]
    /\ index_lock' = "free"
    /\ Finish(t, loc[t], "ok")
    /\ UNCHANGED <<index, id_mapping, reverse_mapping, metadata,
                   last_rebuild, now, ensureLoads>>
    /\ UNCHANGED <<mgr, filterVars, sessionVars, feedbackVars, profileVars, redisVars, callVars>>

(***************************************************************************)
(* FAISSIndexBuilder.load_index                                            *)
(***************************************************************************)
load_index ==
    IF ~disk.index.exists \/ ~disk.mapping.exists
    THEN [ok |-> FALSE, index |-> NoneIndex, id_mapping |-> EmptyArr, metadata |-> NoMetadata]
    ELSE [ok |-> TRUE,
          index |-> [loaded |-> TRUE, vecs |-> disk.index.content],
          id_mapping |-> [i \in DOMAIN disk.mapping.content |-> Str(disk.mapping.content[i])],
          metadata |-> IF disk.meta.exists
                       THEN [has_created_at |-> TRUE, created_at |-> disk.meta.created_at]
                       ELSE NoMetadata]

(***************************************************************************)
(* FAISSIndexManager.load_index_from_disk                                  *)
(***************************************************************************)
CallLoadIndexFromDisk(t) ==
    /\ pc[t] = "idle"
    /\ Goto(t, "l_lock")
    /\ SetLoc(t, [LocInit EXCEPT !.op = "load_index_from_disk",
                                 !.before = <<index, id_mapping, reverse_mapping,
                                              last_rebuild, get_stats>>])
    /\ UNCHANGED <<index, id_mapping, reverse_mapping, metadata,
                   last_rebuild, index_lock, disk, now, ensureLoads>>
    /\ UNCHANGED <<mgr, filterVars, sessionVars, feedbackVars, profileVars, redisVars, callVars>>

\* with self.index_lock:
LoadLock(t) ==
    /\ pc[t] = "l_lock"
    /\ CanAcquire(t)
    /\ index_lock' = t
    /\ Goto(t, "l_load")
    /\ UNCHANGED <<index, id_mapping, reverse_mapping, metadata,
                   last_rebuild, disk, now, loc, ensureLoads>>
    /\ UNCHANGED <<mgr, filterVars, sessionVars, feedbackVars, profileVars, redisVars, callVars>>

\* index, id_mapping, metadata = self.builder.load_index(path), then the
\* assignments to self and the end of the with block.  A load error inside
\* ensure_index_loaded is caught there and the build from the database follows.
LoadLoad(t) ==
    /\ pc[t] = "l_load"
    /\ index_lock' = "free"
    /\ LET got == load_index
       IN  IF got.ok
           THEN /\ index' = got.index
                /\ id_mapping' = got.id_mapping
                /\ reverse_mapping' = ReverseOf(got.id_mapping)
                /\ metadata' = got.metadata
                /\ last_rebuild' = IF got.metadata.has_created_at
                                   THEN got.metadata.created_at
                                   ELSE now
                /\ ensureLoads' = IF loc[t].op = "ensure_index_loaded"
                                  THEN ensureLoads + 1 ELSE ensureLoads
                /\ Finish(t, loc[t], "ok")
           ELSE /\ UNCHANGED <<index, id_mapping, reverse_mapping, metadata,
                               last_rebuild, ensureLoads>>
                /\ IF loc[t].op = "ensure_index_loaded"
                   THEN Goto(t, "b_fetch") /\ UNCHANGED loc
                   ELSE Finish(t, loc[t], "FAISSIndexBuilderError")
    /\ UNCHANGED <<disk, now>>
    /\ UNCHANGED <<mgr, filterVars, sessionVars, feedbackVars, profileVars, redisVars, callVars>>

(***************************************************************************)
(* FAISSIndexManager.ensure_index_loaded                                   *)
(***************************************************************************)
CallEnsureIndexLoaded(t) ==
    /\ pc[t] = "idle"
    /\ Goto(t, "e_check")
    /\ SetLoc(t, [LocInit EXCEPT !.op = "ensure_index_loaded",
                                 !.cold = ~disk.index.exists /\ ~disk.mapping.exists])
    /\ UNCHANGED <<index, id_mapping, reverse_mapping, metadata,
                   last_rebuild, index_lock, disk, now, ensureLoads>>
    /\ UNCHANGED <<mgr, filterVars, sessionVars, feedbackVars, profileVars, redisVars, callVars>>

\* if self.index is not None: return
EnsureCheck(t) ==
    /\ pc[t] = "e_check"
    /\ IF index.loaded
       THEN Finish(t, loc[t], "ok")
       ELSE Goto(t, "l_lock") /\ UNCHANGED loc
    /\ UNCHANGED <<index, id_mapping, reverse_mapping, metadata,
                   last_rebuild, index_lock, disk, now, ensureLoads>>
    /\ UNCHANGED <<mgr, filterVars, sessionVars, feedbackVars, profileVars, redisVars, callVars>>

(***************************************************************************)
(* FAISSIndexManager.reset                                                 *)
(***************************************************************************)
Reset(t) ==
    /\ pc[t] = "idle"
    /\ CanAcquire(t)
    /\ index' = NoneIndex
    /\ id_mapping' = EmptyArr
    /\ reverse_mapping' = EmptyArr
    /\ metadata' = NoMetadata
    /\ last_rebuild' = NoTime
    /\ ensureLoads' = 0
    /\ UNCHANGED <<index_lock, disk, now, pc, loc>>
    /\ UNCHANGED <<mgr, filterVars, sessionVars, feedbackVars, profileVars, redisVars, callVars>>

(***************************************************************************)
(* faiss.IndexFlatL2.search: the k nearest stored vectors, nearest first,  *)
(* equal distances in order of position.  Each hit is the squared L2       *)
(* distance and the position.                                              *)
(***************************************************************************)
Nearer(vecs, q, i, j) ==
    \/ L2sq(q, vecs[i]) < L2sq(q, vecs[j])
    \/ L2sq(q, vecs[i]) = L2sq(q, vecs[j]) /\ i < j

IndexSearch(vecs, q, k) ==
    [r \in 0..(k - 1) |->
        LET i == CHOOSE i \in DOMAIN vecs :
                    Cardinality({j \in DOMAIN vecs : Nearer(vecs, q, j, i)}) = r
        IN  [distance |-> L2sq(q, vecs[i]), idx |-> i]]

(***************************************************************************)
(* SimilaritySearch._distance_to_similarity, normalize_embeddings = True:  *)
(*   cosine_sim = 1 - distance**2 / 2, clamped to [-1, 1]                  *)
(*   similarity = (cosine_sim + 1) / 2                                     *)
(* distance is the number the index reports, d/25 in the model's units, so *)
(* similarity = (2500 - d*d) / 2500, clamped at 0.  The result is kept in  *)
(* units of 1/2500.                                                        *)
(***************************************************************************)
distance_to_similarity(d) == IF d * d > 2500 THEN 0 ELSE 2500 - d * d

\* min_similarity = None
NoMinSimilarity == 0 - 1

(***************************************************************************)
(* SimilaritySearch._format_results                                        *)
(***************************************************************************)
RECURSIVE FormatFrom(_, _, _, _)
FormatFrom(raw, i, mapping, min_similarity) ==
    IF i >= ArrLen(raw)
    THEN <<>>
    ELSE LET hit == raw[i]
             rest == FormatFrom(raw, i + 1, mapping, min_similarity)
             similarity == distance_to_similarity(hit.distance)
         IN  IF hit.idx \notin DOMAIN mapping
             THEN rest
             ELSE IF min_similarity # NoMinSimilarity /\ similarity < min_similarity
             THEN rest
             ELSE <<[product_id |-> mapping[hit.idx], distance |-> hit.distance,
                     similarity |-> similarity, rank |-> i]>> \o rest

format_results(raw, mapping, min_similarity) == FormatFrom(raw, 0, mapping, min_similarity)

\* Hits whose position has no entry in the mapping (logged and skipped).
MappingMisses(raw, mapping) ==
    Cardinality({i \in DOMAIN raw : raw[i].idx \notin DOMAIN mapping})

\* The results with the ranks they came with.
KeepRanks(results) == results

\* for i, result in enumerate(results): result.rank = i
Rerank(results) == [i \in 1..Len(results) |-> [results[i] EXCEPT !.rank = i - 1]]

FirstK(results, k) == SubSeq(results, 1, IF Len(results) < k THEN Len(results) ELSE k)

\* [r for r in results if r.product_id != product_id]
RECURSIVE WithoutProduct(_, _)
WithoutProduct(results, product_id) ==
    IF results = <<>>
    THEN <<>>
    ELSE IF Head(results).product_id = product_id
    THEN WithoutProduct(Tail(results), product_id)
    ELSE <<Head(results)>> \o WithoutProduct(Tail(results), product_id)

(***************************************************************************)
(* SimilaritySearch.search                                                 *)
(***************************************************************************)
CallSearch(t, q, k) ==
    /\ pc[t] = "idle"
    /\ Goto(t, "s_check")
    /\ SetLoc(t, [LocInit EXCEPT !.op = "search", !.q = q, !.k = k])
    /\ UNCHANGED <<index, id_mapping, reverse_mapping, metadata,
                   last_rebuild, index_lock, disk, now, ensureLoads>>
    /\ UNCHANGED <<mgr, filterVars, sessionVars, feedbackVars, profileVars, redisVars, callVars>>

\* get_index(): if self.index is None: raise FAISSIndexManagerError
SearchCheck(t) ==
    /\ pc[t] = "s_check"
    /\ IF index.loaded
       THEN Goto(t, "s_get_index") /\ UNCHANGED loc
       ELSE Finish(t, loc[t], "FAISSIndexManagerError")
    /\ UNCHANGED <<index, id_mapping, reverse_mapping, metadata,
                   last_rebuild, index_lock, disk, now, ensureLoads>>
    /\ UNCHANGED <<mgr, filterVars, sessionVars, feedbackVars, profileVars, redisVars, callVars>>

\* get_index(): with self.index_lock: return self.index
SearchGetIndex(t) ==
    /\ pc[t] = "s_get_index"
    /\ CanAcquire(t)
    /\ Goto(t, "s_get_mapping")
    /\ SetLoc(t, [loc[t] EXCEPT !.lidx = index])
    /\ UNCHANGED <<index, id_mapping, reverse_mapping, metadata,
                   last_rebuild, index_lock, disk, now, ensureLoads>>
    /\ UNCHANGED <<mgr, filterVars, sessionVars, feedbackVars, profileVars, redisVars, callVars>>

\* get_id_mapping(): with self.index_lock: return self.id_mapping.copy()
SearchGetMapping(t) ==
    /\ pc[t] = "s_get_mapping"
    /\ CanAcquire(t)
    /\ Goto(t, "s_query")
    /\ SetLoc(t, [loc[t] EXCEPT !.lmap = id_mapping])
    /\ UNCHANGED <<index, id_mapping, reverse_mapping, metadata,
                   last_rebuild, index_lock, disk, now, ensureLoads>>
    /\ UNCHANGED <<mgr, filterVars, sessionVars, feedbackVars, profileVars, redisVars, callVars>>

\* k = min(k, index.ntotal); index.search; self._format_results; and, for
\* search_by_product_id with exclude_self, the removal of the product itself.
SearchQuery(t) ==
    /\ pc[t] = "s_query"
    /\ IF ~loc[t].lidx.loaded
       THEN Finish(t, loc[t], "AttributeError")
       ELSE LET n == ntotal(loc[t].lidx)
                k == IF loc[t].k > n THEN n ELSE loc[t].k
                raw == IndexSearch(loc[t].lidx.vecs, loc[t].q, k)
                found == format_results(raw, loc[t].lmap, NoMinSimilarity)
                kept == IF loc[t].op = "search_by_product_id" /\ loc[t].exclude_self
                        THEN Rerank(FirstK(WithoutProduct(found, loc[t].pid), loc[t].k - 1))
                        ELSE found
            IN  Finish(t, [loc[t] EXCEPT !.results = kept,
                                         !.missed = MappingMisses(raw, loc[t].lmap)], "ok")
    /\ UNCHANGED <<index, id_mapping, reverse_mapping, metadata,
                   last_rebuild, index_lock, disk, now, ensureLoads>>
    /\ UNCHANGED <<mgr, filterVars, sessionVars, feedbackVars, profileVars, redisVars, callVars>>

(***************************************************************************)
(* SimilaritySearch.search_by_product_id and get_product_vector            *)
(***************************************************************************)
CallSearchByProductId(t, product_id, k, exclude_self) ==
    /\ pc[t] = "idle"
    /\ Goto(t, "p_position")
    /\ SetLoc(t, [LocInit EXCEPT !.op = "search_by_product_id", !.pid = product_id,
                                 !.k = k, !.exclude_self = exclude_self])
    /\ UNCHANGED <<index, id_mapping, reverse_mapping, metadata,
                   last_rebuild, index_lock, disk, now, ensureLoads>>
    /\ UNCHANGED <<mgr, filterVars, sessionVars, feedbackVars, profileVars, redisVars, callVars>>

CallGetProductVector(t, product_id) ==
    /\ pc[t] = "idle"
    /\ Goto(t, "p_position")
    /\ SetLoc(t, [LocInit EXCEPT !.op = "get_product_vector", !.pid = product_id])
    /\ UNCHANGED <<index, id_mapping, reverse_mapping, metadata,
                   last_rebuild, index_lock, disk, now, ensureLoads>>
    /\ UNCHANGED <<mgr, filterVars, sessionVars, feedbackVars, profileVars, redisVars, callVars>>

\* faiss_idx = self.index_manager.get_faiss_position(product_id)
ProductPosition(t) ==
    /\ pc[t] = "p_position"
    /\ CanAcquire(t)
    /\ IF loc[t].pid \in DOMAIN reverse_mapping
       THEN /\ Goto(t, "p_check")
            /\ SetLoc(t, [loc[t] EXCEPT !.pos = reverse_mapping[loc[t].pid]])
       ELSE IF loc[t].op = "get_product_vector"
       THEN Finish(t, loc[t], "None")
       ELSE Finish(t, loc[t], "SimilaritySearchError")
    /\ UNCHANGED <<index, id_mapping, reverse_mapping, metadata,
                   last_rebuild, index_lock, disk, now, ensureLoads>>
    /\ UNCHANGED <<mgr, filterVars, sessionVars, feedbackVars, profileVars, redisVars, callVars>>

\* get_index(): if self.index is None: raise FAISSIndexManagerError
ProductCheck(t) ==
    /\ pc[t] = "p_check"
    /\ IF index.loaded
       THEN Goto(t, "p_reconstruct") /\ UNCHANGED loc
       ELSE Finish(t, loc[t], "FAISSIndexManagerError")
    /\ UNCHANGED <<index, id_mapping, reverse_mapping, metadata,
                   last_rebuild, index_lock, disk, now, ensureLoads>>
    /\ UNCHANGED <<mgr, filterVars, sessionVars, feedbackVars, profileVars, redisVars, callVars>>

\* index = get_index(); vector = index.reconstruct(faiss_idx)
\* search_by_product_id goes on to self.search(vector, k + 1 or k).
ProductReconstruct(t) ==
    /\ pc[t] = "p_reconstruct"
    /\ CanAcquire(t)
    /\ IF ~index.loaded
       THEN Finish(t, loc[t], "AttributeError")
       ELSE IF loc[t].pos \notin DOMAIN index.vecs
       THEN Finish(t, loc[t], "RuntimeError")
       ELSE IF loc[t].op = "get_product_vector"
       THEN Finish(t, [loc[t] EXCEPT !.vector = index.vecs[loc[t].pos]], "ok")
       ELSE /\ Goto(t, "s_check")
            /\ SetLoc(t, [loc[t] EXCEPT !.vector = index.vecs[loc[t].pos],
                                        !.q = index.vecs[loc[t].pos],
                                        !.k = IF loc[t].exclude_self THEN @ + 1 ELSE @])
    /\ UNCHANGED <<index, id_mapping, reverse_mapping, metadata,
                   last_rebuild, index_lock, disk, now, ensureLoads>>
    /\ UNCHANGED <<mgr, filterVars, sessionVars, feedbackVars, profileVars, redisVars, callVars>>

(***************************************************************************)
(* Environment: time passes.                                               *)
(***************************************************************************)
Tick ==
    /\ now < MaxTime
    /\ now' = now + 1
    /\ UNCHANGED <<index, id_mapping, reverse_mapping, metadata,
                   last_rebuild, index_lock, disk, pc, loc, ensureLoads>>
    /\ UNCHANGED <<mgr, filterVars, sessionVars, feedbackVars, profileVars, redisVars, callVars>>

(***************************************************************************)
(* The index manager before anything is loaded.                            *)
(***************************************************************************)
(***************************************************************************)
(* The singleton.  mgr.instance says that cls._instance is set,            *)
(* initialized is self._initialized, inits counts the runs of the body of  *)
(* __init__, locks the RLock objects assigned to self.index_lock, and cpc  *)
(* is the position of each thread in FAISSIndexManager(); reset_loaded     *)
(* records that __init__ assigned self.index = None over a loaded index.   *)
(***************************************************************************)
NoManager ==
    [instance |-> FALSE, initialized |-> FALSE, inits |-> 0, locks |-> 0,
     reset_loaded |-> FALSE, cpc |-> [t \in Threads |-> "idle"]]

\* The manager after one thread constructed it.
ManagerConstructed ==
    [instance |-> TRUE, initialized |-> TRUE, inits |-> 1, locks |-> 1,
     reset_loaded |-> FALSE, cpc |-> [t \in Threads |-> "done"]]

MgrGoto(t, label) == [mgr EXCEPT !.cpc[t] = label]

\* __new__: if cls._instance is None: with cls._lock: if cls._instance is
\* None: cls._instance = super().__new__(cls)
ManagerNew(t) ==
    /\ mgr.cpc[t] = "idle"
    /\ mgr' = [MgrGoto(t, "init_check") EXCEPT !.instance = TRUE]
    /\ UNCHANGED <<index, id_mapping, reverse_mapping, metadata,
                   last_rebuild, index_lock, disk, now, pc, loc, ensureLoads>>
    /\ UNCHANGED <<filterVars, sessionVars, feedbackVars, profileVars, redisVars, callVars>>

\* __init__: if hasattr(self, "_initialized") and self._initialized: return
ManagerInitCheck(t) ==
    /\ mgr.cpc[t] = "init_check"
    /\ mgr' = MgrGoto(t, IF mgr.initialized THEN "done" ELSE "init_state")
    /\ UNCHANGED <<index, id_mapping, reverse_mapping, metadata,
                   last_rebuild, index_lock, disk, now, pc, loc, ensureLoads>>
    /\ UNCHANGED <<filterVars, sessionVars, feedbackVars, profileVars, redisVars, callVars>>

\* self.index = None; self.id_mapping = {}; self.reverse_mapping = {};
\* self.metadata = {}; self.last_rebuild = None
ManagerInitState(t) ==
    /\ mgr.cpc[t] = "init_state"
    /\ index' = NoneIndex
    /\ id_mapping' = EmptyArr
    /\ reverse_mapping' = EmptyArr
    /\ metadata' = NoMetadata
    /\ last_rebuild' = NoTime
    /\ mgr' = [MgrGoto(t, "init_lock") EXCEPT
                  !.reset_loaded = @ \/ index.loaded]
    /\ UNCHANGED <<index_lock, disk, now, pc, loc, ensureLoads>>
    /\ UNCHANGED <<filterVars, sessionVars, feedbackVars, profileVars, redisVars, callVars>>

\* self.index_lock = threading.RLock(); self._initialized = True
ManagerInitLock(t) ==
    /\ mgr.cpc[t] = "init_lock"
    /\ index_lock' = "free"
    /\ mgr' = [MgrGoto(t, "done") EXCEPT !.locks = @ + 1, !.inits = @ + 1,
                                         !.initialized = TRUE]
    /\ UNCHANGED <<index, id_mapping, reverse_mapping, metadata,
                   last_rebuild, disk, now, pc, loc, ensureLoads>>
    /\ UNCHANGED <<filterVars, sessionVars, feedbackVars, profileVars, redisVars, callVars>>

\* manager = get_index_manager(); manager.build_index_from_db(session)
HolderBuilds(t) ==
    /\ mgr.cpc[t] = "done"
    /\ CallBuildIndexFromDb(t)

IndexFieldsInit ==
    /\ index = NoneIndex
    /\ id_mapping = EmptyArr
    /\ reverse_mapping = EmptyArr
    /\ metadata = NoMetadata
    /\ last_rebuild = NoTime
    /\ index_lock = "free"
    /\ disk = [index |-> NoFile, mapping |-> NoFile, meta |-> NoMetaFile]
    /\ now = 0
    /\ pc = [t \in Threads |-> "idle"]
    /\ loc = [t \in Threads |-> LocInit]
    /\ ensureLoads = 0

IndexInit == IndexFieldsInit /\ mgr = ManagerConstructed

(***************************************************************************)
(* SimilaritySearch.search on one index and mapping: k is limited to the   *)
(* vectors available, the index is searched, the hits are formatted.       *)
(***************************************************************************)
search(ix, mapping, q, k, min_similarity) ==
    LET max_k == ntotal(ix)
        kk == IF k > max_k THEN max_k ELSE k
    IN  format_results(IndexSearch(ix.vecs, q, kk), mapping, min_similarity)

(***************************************************************************)
(* Filtered search.  The catalog is a set of products, each with its       *)
(* embedding both in the products table and in the index; the filter is    *)
(* the set of products its WHERE clause selects.                           *)
(***************************************************************************)
MaxCatalog == 6       \* products in the catalog of the filtered search

Catalog == 1..MaxCatalog
Strategies == {"subset", "postfilter", "auto"}

\* What a call returned.  raised names the exception that ended it instead,
\* index_accessed says whether it asked the manager for the index.
NoResults == [returned |-> FALSE, results |-> <<>>, total_found |-> 0,
              raised |-> "no", index_accessed |-> FALSE]
SearchResults(results) ==
    [returned |-> TRUE, results |-> results, total_found |-> Len(results),
     raised |-> "no", index_accessed |-> FALSE]
Raised(exc) ==
    [returned |-> FALSE, results |-> <<>>, total_found |-> 0,
     raised |-> exc, index_accessed |-> TRUE]

\* The index the manager holds for a catalog.
CatalogIndex(indexed) ==
    LET rows == load_embeddings_from_db(indexed, FALSE)
    IN  build_index(rows.embeddings, rows.product_ids)

\* FilteredSearcher.get_filtered_product_ids: SELECT id FROM products WHERE .. ORDER BY id
get_filtered_product_ids(allowed) ==
    LET ids == SortedArr(allowed)
    IN  [i \in DOMAIN ids |-> Uuid(ids[i])]

\* FilteredSearcher.get_filtered_embeddings: SELECT id, embedding .. ORDER BY id
get_filtered_embeddings(allowed) ==
    LET ids == SortedArr(allowed)
    IN  [embeddings |-> [i \in DOMAIN ids |-> Emb(ids[i])],
         product_ids |-> [i \in DOMAIN ids |-> Uuid(ids[i])]]

\* FilteredSearcher.build_subset_index
build_subset_index(embeddings, product_ids) ==
    [index |-> [loaded |-> TRUE, vecs |-> embeddings],
     id_mapping |-> [i \in DOMAIN product_ids |-> product_ids[i]]]

\* FilteredSimilaritySearch._search_subset_strategy
search_subset_strategy(q, allowed, k, min_similarity) ==
    LET got == get_filtered_embeddings(allowed)
    IN  IF ArrLen(got.embeddings) = 0
        THEN SearchResults(<<>>)
        ELSE LET sub == build_subset_index(got.embeddings, got.product_ids)
                 n == ntotal(sub.index)
                 search_k == IF k < n THEN k ELSE n
                 raw == IndexSearch(sub.index.vecs, q, search_k)
             IN  SearchResults(format_results(raw, sub.id_mapping, min_similarity))

\* [r for r in results.results if r.product_id in filtered_product_ids]
RECURSIVE KeepAllowed(_, _)
KeepAllowed(results, ids) ==
    IF results = <<>>
    THEN <<>>
    ELSE IF Head(results).product_id \in ids
    THEN <<Head(results)>> \o KeepAllowed(Tail(results), ids)
    ELSE KeepAllowed(Tail(results), ids)

\* FilteredSimilaritySearch._search_postfilter_strategy
search_postfilter_strategy(ix, mapping, q, filtered_product_ids, k, min_similarity) ==
    LET n == ntotal(ix)
        search_k == IF k * 5 < n THEN k * 5 ELSE n
        found == search(ix, mapping, q, search_k, min_similarity)
    IN  SearchResults(Rerank(FirstK(KeepAllowed(found, filtered_product_ids), k)))

\* FilteredSimilaritySearch.search_with_filters
search_with_filters(ix, mapping, q, allowed, k, min_similarity, strategy) ==
    LET total_products == ntotal(ix)
        filtered_product_ids == get_filtered_product_ids(allowed)
        n == ArrLen(filtered_product_ids)
        \* filter_ratio < self.subset_threshold_ratio (0.1)
        use_subset == IF strategy = "subset" THEN TRUE
                      ELSE IF strategy = "postfilter" THEN FALSE
                      ELSE n * 10 < total_products
        results ==
            IF n = 0
            THEN SearchResults(<<>>)
            ELSE IF use_subset
            THEN search_subset_strategy(q, allowed, k, min_similarity)
            ELSE search_postfilter_strategy(
                     ix, mapping, q,
                     {filtered_product_ids[i] : i \in DOMAIN filtered_product_ids},
                     k, min_similarity)
    IN  \* total_products = self.index_manager.get_index().ntotal comes first,
        \* and get_index raises when no index is loaded.
        IF ~ix.loaded
        THEN Raised("FAISSIndexManagerError")
        ELSE [results EXCEPT !.index_accessed = TRUE]

\* One call of search_with_filters on the arguments drawn at the start.
SearchWithFilters(strategy) ==
    /\ filterIn.k > 0
    /\ ~filterOut[strategy].returned
    /\ filterOut[strategy].raised = "no"
    /\ LET built == CatalogIndex(filterIn.indexed)
       IN  filterOut' = [filterOut EXCEPT ![strategy] =
               search_with_filters(built.index, built.id_mapping, filterIn.q,
                                   filterIn.allowed, filterIn.k, NoMinSimilarity,
                                   strategy)]
    /\ UNCHANGED <<filterIn, indexVars, sessionVars, feedbackVars, profileVars, redisVars, callVars>>

FilterIdle ==
    /\ filterIn = [indexed |-> {}, allowed |-> {}, q |-> ZeroVec, k |-> 0]
    /\ filterOut = [s \in Strategies |-> NoResults]

\* Any indexed catalog (none: the manager holds no index), any filter over
\* it, any query vector, any k.
FilterInit ==
    /\ \E indexed \in SUBSET Catalog :
       \E allowed \in SUBSET indexed :
       \E j \in DOMAIN UnitVectors, k \in 1..MaxK :
           filterIn = [indexed |-> indexed, allowed |-> allowed,
                       q |-> UnitVectors[j], k |-> k]
    /\ filterOut = [s \in Strategies |-> NoResults]

(***************************************************************************)
(* SessionEmbedding and SessionManager.  Time is in minutes.               *)
(***************************************************************************)
MaxClock == 60        \* last minute of the session model's clock

session_window_size == 10
session_timeout_minutes == 30

Users == {"u1"}

NoSession == [exists |-> FALSE, interactions |-> <<>>, last_activity |-> NoTime]
\* SessionEmbedding()
NewSession == [exists |-> TRUE, interactions |-> <<>>, last_activity |-> NoTime]

Abs(x) == IF x < 0 THEN 0 - x ELSE x

RECURSIVE Gcd(_, _)
Gcd(a, b) == IF b = 0 THEN a ELSE Gcd(b, a % b)

\* v / np.linalg.norm(v): unit vectors are kept as the shortest integer
\* vector of their direction.
Direction(v) ==
    LET g == Gcd(Abs(v[1]), Abs(v[2]))
    IN  <<v[1] \div g, v[2] \div g>>

RECURSIVE SumOf(_)
SumOf(entries) ==
    IF entries = <<>>
    THEN ZeroVec
    ELSE LET rest == SumOf(Tail(entries))
         IN  <<Head(entries).embedding[1] + rest[1], Head(entries).embedding[2] + rest[2]>>

\* SessionEmbedding.get_session_embedding: None without interactions, else
\* the mean of the window, normalized (nan when the mean is the zero vector).
get_session_embedding(session) ==
    IF session.interactions = <<>>
    THEN [kind |-> "none", v |-> ZeroVec]
    ELSE LET sum == SumOf(session.interactions)
         IN  IF sum = ZeroVec
             THEN [kind |-> "nan", v |-> ZeroVec]
             ELSE [kind |-> "vector", v |-> Direction(sum)]

\* is_active that looks only at whether the session has seen activity.
is_active_without_timeout(session, t) == session.last_activity # NoTime

\* SessionEmbedding.is_active with the configured timeout.
is_active(session, t) ==
    IF session.last_activity = NoTime
    THEN FALSE
    ELSE t - session.last_activity < session_timeout_minutes

\* SessionManager.get_session: the manager's sessions after the call.
get_session(ss, user_id, t) ==
    IF ~ss[user_id].exists
    THEN [ss EXCEPT ![user_id] = NewSession]
    ELSE IF ~is_active(ss[user_id], t)
    THEN [ss EXCEPT ![user_id] = NewSession]
    ELSE ss

\* A deque without maxlen: append never evicts.
DequeAppendUnbounded(q, e) == Append(q, e)

\* deque(maxlen=window_size).append
DequeAppend(q, e) ==
    IF Len(q) >= session_window_size THEN Append(Tail(q), e) ELSE Append(q, e)

\* SessionManager.add_interaction: the manager's sessions after the call.
add_interaction(ss, user_id, product_embedding, interaction_type, t) ==
    LET got == get_session(ss, user_id, t)
        entry == [embedding |-> product_embedding, type |-> interaction_type,
                  timestamp |-> t]
    IN  [got EXCEPT ![user_id] =
            [exists |-> TRUE,
             interactions |-> DequeAppend(got[user_id].interactions, entry),
             last_activity |-> t]]

\* The user's session has had no activity for the timeout.
TimedOut(user_id) ==
    /\ sessions[user_id].exists
    /\ sessions[user_id].last_activity # NoTime
    /\ clock - sessions[user_id].last_activity >= session_timeout_minutes

NoCall == [kind |-> "none", user_id |-> "u1", timed_out |-> FALSE,
           old |-> <<>>, window |-> <<>>, vector |-> [kind |-> "none", v |-> ZeroVec]]

NoteTimeout(user_id) ==
    expiredAt' = IF TimedOut(user_id)
                 THEN [expiredAt EXCEPT ![user_id] = clock]
                 ELSE expiredAt

\* session_manager.add_interaction(user_id, product_embedding), at most once
\* per user and minute.
SessionAddInteraction(user_id, p) ==
    /\ \A i \in DOMAIN sessions[user_id].interactions :
           sessions[user_id].interactions[i].timestamp < clock
    /\ sessions' = add_interaction(sessions, user_id, Emb(p), "view", clock)
    /\ sessionOut' = [kind |-> "add", user_id |-> user_id,
                      timed_out |-> TimedOut(user_id),
                      old |-> sessions[user_id].interactions,
                      window |-> sessions'[user_id].interactions,
                      vector |-> [kind |-> "none", v |-> ZeroVec]]
    /\ NoteTimeout(user_id)
    /\ UNCHANGED <<clock, indexVars, filterVars, feedbackVars, profileVars, redisVars, callVars>>

\* session_manager.get_session_embedding(user_id)
SessionGetEmbedding(user_id) ==
    /\ sessions' = get_session(sessions, user_id, clock)
    /\ sessionOut' = [kind |-> "get", user_id |-> user_id,
                      timed_out |-> TimedOut(user_id),
                      old |-> sessions[user_id].interactions,
                      window |-> sessions'[user_id].interactions,
                      vector |-> get_session_embedding(sessions'[user_id])]
    /\ NoteTimeout(user_id)
    /\ UNCHANGED <<clock, indexVars, filterVars, feedbackVars, profileVars, redisVars, callVars>>

\* SessionEmbedding.add_interaction on the user's session object, with
\* timestamp = datetime.now().
EmbeddingAddInteraction(user_id, p) ==
    /\ sessions[user_id].exists
    /\ LET entry == [embedding |-> Emb(p), type |-> "view", timestamp |-> clock]
       IN  sessions' = [sessions EXCEPT ![user_id] =
               [exists |-> TRUE,
                interactions |-> DequeAppend(sessions[user_id].interactions, entry),
                last_activity |-> clock]]
    /\ sessionOut' = [kind |-> "append", user_id |-> user_id, timed_out |-> FALSE,
                      old |-> sessions[user_id].interactions,
                      window |-> sessions'[user_id].interactions,
                      vector |-> [kind |-> "none", v |-> ZeroVec]]
    /\ UNCHANGED <<clock, expiredAt, indexVars, filterVars, feedbackVars, profileVars, redisVars, callVars>>

\* session_manager.cleanup_inactive_sessions()
CleanupInactiveSessions ==
    /\ sessions' = [u \in Users |->
                       IF sessions[u].exists /\ ~is_active(sessions[u], clock)
                       THEN NoSession ELSE sessions[u]]
    /\ UNCHANGED <<clock, sessionOut, expiredAt,
                   indexVars, filterVars, feedbackVars, profileVars, redisVars, callVars>>

\* Time passes: the timeout, or one minute less.
ClockAdvance(d) ==
    /\ clock + d <= MaxClock
    /\ clock' = clock + d
    /\ UNCHANGED <<sessions, sessionOut, expiredAt,
                   indexVars, filterVars, feedbackVars, profileVars, redisVars, callVars>>

SessionInit ==
    /\ sessions = [u \in Users |-> NoSession]
    /\ clock = 0
    /\ sessionOut = NoCall
    /\ expiredAt = [u \in Users |-> NoTime]

(***************************************************************************)
(* User embeddings kept in the cache.  The EWMA of two unit vectors,       *)
(* normalized, has irrational coordinates in general, so a cached          *)
(* embedding is kept as the expression that produced it:                   *)
(*   <<"none">>                    no embedding                            *)
(*   <<"product", p>>              the embedding of product p              *)
(*   <<"random", 0>>               a cold-start random embedding           *)
(*   <<"ewma", cur, e, w>>         normalize(a * cur + (1 - a) * e),       *)
(*                                 a = ewma_alpha / w, w in hundredths     *)
(*   <<"away", cur, e, 10>>        normalize(cur - 0.1 * (e - cur))        *)
(*   <<"blend", cur, e, w>>        normalize(0.3 * w * e + 0.7 * cur)      *)
(* An update that leaves the vector as it was returns cur itself.          *)
(***************************************************************************)
MaxRounds == 2        \* batches of feedback events

ewma_alpha == 95      \* config.user_modeling.ewma_alpha, in hundredths

Handlers == {"h1", "h2"}
EventTypes == {"like", "view", "dislike"}

NoEmbedding == <<"none">>
Of(p) == <<"product", p>>
RandomEmbedding == <<"random", 0>>

\* FeedbackHandler.interaction_weights, in hundredths
handler_weight(type) ==
    CASE type = "purchase" -> 200
      [] type = "thumbs_up" -> 150
      [] type = "like" -> 100
      [] type = "add_to_cart" -> 80
      [] type = "click" -> 30
      [] type = "view" -> 10
      [] type = "dismiss" -> 0 - 30
      [] type = "remove_from_cart" -> 0 - 50
      [] type = "thumbs_down" -> 0 - 100
      [] type = "dislike" -> 0 - 150
      [] OTHER -> 0

\* INTERACTION_WEIGHTS.get(interaction_type, 0.3), in hundredths
router_weight(type) ==
    CASE type = "purchase" -> 100
      [] type = "like" -> 50
      [] type = "view" -> 10
      [] OTHER -> 30

\* The interaction types that update the handler's session.
PositiveTypes == {"view", "click", "like", "thumbs_up", "add_to_cart", "purchase"}

\* WarmUserEmbedding.update_embedding: adjusted_alpha = clip(alpha / weight, 0, 1)
update_embedding(current_embedding, interaction_embedding, interaction_weight) ==
    IF ewma_alpha >= interaction_weight
    THEN current_embedding
    ELSE IF current_embedding = interaction_embedding
    THEN current_embedding
    ELSE <<"ewma", current_embedding, interaction_embedding, interaction_weight>>

\* FeedbackHandler._update_long_term_embedding: the embedding it caches.
long_term_update(current_embedding, product_embedding, weight) ==
    IF current_embedding = NoEmbedding
    THEN product_embedding
    ELSE IF weight < 0
    THEN IF current_embedding = product_embedding
         THEN current_embedding
         ELSE <<"away", current_embedding, product_embedding, 10>>
    ELSE update_embedding(current_embedding, product_embedding, Abs(weight))

\* _update_session_embeddings: the session embedding it caches.
session_update(current_session, product_embedding, weight) ==
    IF current_session = NoEmbedding
    THEN product_embedding
    ELSE IF current_session = product_embedding
    THEN current_session
    ELSE <<"blend", current_session, product_embedding, weight>>

\* Local variables of a handler.  cached records the long-term embedding the
\* cache held for the user when the request arrived; session_updated is
\* result["session_updated"] of process_event.
HLocInit == [op |-> "none", product |-> 0, type |-> "none", current |-> NoEmbedding,
             cached |-> NoEmbedding, session_updated |-> FALSE]

\* The keys EmbeddingCache keeps a user's embeddings under (user id appended).
USER_LONG_TERM_PREFIX == "embedding:user:long_term:"
USER_SESSION_PREFIX == "embedding:user:session:"
CacheKey == [long_term |-> USER_LONG_TERM_PREFIX, session |-> USER_SESSION_PREFIX]

\* cache.redis.delete(key) for each key: the entries kept under these keys
\* are gone.
DeleteKeys(c, keys) ==
    [f \in DOMAIN c |-> IF CacheKey[f] \in keys THEN NoEmbedding ELSE c[f]]

\* _invalidate_user_cache: the scans of recommend:* and search:* keys touch
\* no embedding; then embedding_keys are deleted one by one.
invalidate_user_cache(c) ==
    DeleteKeys(c, {"user_embeddings:", "user_long_term:", "user_session:"})

HGoto(h, label) == hpc' = [hpc EXCEPT ![h] = label]

\* FeedbackHandler.process_event(event), the product embedding being cached.
CallProcessEvent(h, p, type) ==
    /\ hpc[h] = "idle"
    /\ rounds < MaxRounds
    /\ handler_weight(type) # 0
    /\ HGoto(h, "lt_get")
    /\ hloc' = [hloc EXCEPT ![h] = [HLocInit EXCEPT !.op = "process_event",
                                                    !.product = p, !.type = type]]
    /\ UNCHANGED <<cache, base, rounds,
                   indexVars, filterVars, sessionVars, profileVars, redisVars, callVars>>

\* current_embedding = self._get_user_long_term_embedding(user_id)
LongTermGet(h) ==
    /\ hpc[h] = "lt_get"
    /\ HGoto(h, "lt_set")
    /\ hloc' = [hloc EXCEPT ![h].current = cache.long_term]
    /\ UNCHANGED <<cache, base, rounds,
                   indexVars, filterVars, sessionVars, profileVars, redisVars, callVars>>

\* self.cache.set_user_long_term_embedding(user_id, new_embedding)
LongTermSet(h) ==
    /\ hpc[h] = "lt_set"
    /\ cache' = [cache EXCEPT !.long_term =
                    long_term_update(hloc[h].current, Of(hloc[h].product),
                                     handler_weight(hloc[h].type))]
    /\ HGoto(h, "ev_session")
    /\ UNCHANGED <<hloc, base, rounds,
                   indexVars, filterVars, sessionVars, profileVars, redisVars, callVars>>

\* What the call self.session_manager.add_interaction(user_id, product_embedding)
\* evaluates to: the method ends without a return statement.
add_interaction_returns(user_id, product_embedding) == NoEmbedding

\* self._update_session_embedding: for a positive type the handler's session
\* manager takes the interaction and new_session is what the call returned;
\* it is cached, and reported as session_updated, unless it is None.
EventSession(h) ==
    /\ hpc[h] = "ev_session"
    /\ sessions' = IF hloc[h].type \in PositiveTypes
                   THEN add_interaction(sessions, "u1", Emb(hloc[h].product),
                                        "view", clock)
                   ELSE sessions
    /\ LET new_session == IF hloc[h].type \in PositiveTypes
                          THEN add_interaction_returns("u1", Emb(hloc[h].product))
                          ELSE NoEmbedding
       IN  /\ cache' = IF new_session # NoEmbedding
                       THEN [cache EXCEPT !.session = new_session]
                       ELSE cache
           /\ hloc' = [hloc EXCEPT ![h].session_updated = (new_session # NoEmbedding)]
    /\ HGoto(h, "done")
    /\ UNCHANGED <<base, rounds, clock, sessionOut, expiredAt,
                   indexVars, filterVars, profileVars, redisVars, callVars>>

\* POST /feedback: record_feedback(request) with update_session
CallRecordFeedback(h, p, type) ==
    /\ hpc[h] = "idle"
    /\ rounds < MaxRounds
    /\ HGoto(h, "rf_store")
    /\ hloc' = [hloc EXCEPT ![h] = [HLocInit EXCEPT !.op = "record_feedback",
                                                    !.product = p, !.type = type,
                                                    !.cached = cache.long_term]]
    /\ UNCHANGED <<cache, base, rounds,
                   indexVars, filterVars, sessionVars, profileVars, redisVars, callVars>>

\* interaction_id = _store_interaction(request, db)
RecordStore(h) ==
    /\ hpc[h] = "rf_store"
    /\ user_interactions' = Append(user_interactions,
           [product |-> hloc[h].product, interaction_type |-> hloc[h].type,
            created_at |-> today])
    /\ HGoto(h, "ss_get")
    /\ UNCHANGED <<cache, hloc, base, rounds, user_embedding, today, lastMeta,
                   indexVars, filterVars, sessionVars, redisVars, callVars>>

\* current_session = cache.get_user_embeddings(user_id).get("session")
SessionGet(h) ==
    /\ hpc[h] = "ss_get"
    /\ HGoto(h, "ss_set")
    /\ hloc' = [hloc EXCEPT ![h].current = cache.session]
    /\ UNCHANGED <<cache, base, rounds,
                   indexVars, filterVars, sessionVars, profileVars, redisVars, callVars>>

\* cache.set_user_session_embedding(user_id, updated_session, ttl); then the
\* update task is queued.
SessionSet(h) ==
    /\ hpc[h] = "ss_set"
    /\ cache' = [cache EXCEPT !.session =
                    session_update(hloc[h].current, Of(hloc[h].product),
                                   router_weight(hloc[h].type))]
    /\ HGoto(h, "rf_invalidate")
    /\ UNCHANGED <<hloc, base, rounds,
                   indexVars, filterVars, sessionVars, profileVars, redisVars, callVars>>

\* if settings.enable_cache: _invalidate_user_cache(user_id, cache); the
\* response is built and returned.
RecordInvalidate(h) ==
    /\ hpc[h] = "rf_invalidate"
    /\ cache' = invalidate_user_cache(cache)
    /\ HGoto(h, "done")
    /\ UNCHANGED <<hloc, base, rounds,
                   indexVars, filterVars, sessionVars, profileVars, redisVars, callVars>>

\* The handlers have answered; the next events arrive.
NextRound ==
    /\ \A h \in Handlers : hpc[h] \in {"idle", "done"}
    /\ \E h \in Handlers : hpc[h] = "done"
    /\ hpc' = [h \in Handlers |-> "idle"]
    /\ hloc' = [h \in Handlers |-> HLocInit]
    /\ base' = cache
    /\ rounds' = rounds + 1
    /\ UNCHANGED <<cache, indexVars, filterVars, sessionVars, profileVars, redisVars, callVars>>

FeedbackInit ==
    /\ cache = [long_term |-> NoEmbedding, session |-> NoEmbedding]
    /\ hpc = [h \in Handlers |-> "idle"]
    /\ hloc = [h \in Handlers |-> HLocInit]
    /\ base = [long_term |-> NoEmbedding, session |-> NoEmbedding]
    /\ rounds = 0

(***************************************************************************)
(* UserEmbeddingBuilder: the long-term profile rebuilt from the user's     *)
(* interaction history.  Time is in days; confidence is in twentieths.     *)
(***************************************************************************)
MaxInteractions == 3  \* rows of user_interactions in the profile model
MaxUpdates == 2       \* runs of update_user_embedding
DayStep == 45         \* days that pass at once
MaxDay == 135         \* last day of the profile model's calendar

days_back == 90
max_interactions == 50

ProfileTypes == {"view", "like"}

NoRow == [exists |-> FALSE, long_term_embedding |-> NoEmbedding,
          interaction_count |-> 0, confidence_score |-> 0]
NoMeta == [status |-> "none", interaction_count |-> 0, has_processed_count |-> FALSE,
           processed_count |-> 0, confidence |-> 0, updates |-> 0]

Reverse(s) == [i \in 1..Len(s) |-> s[Len(s) + 1 - i]]

\* UserEmbeddingBuilder.get_recent_interactions: the rows of the last
\* days_back days, newest first, at most limit of them.
get_recent_interactions(rows, t, limit) ==
    LET recent == SelectSeq(rows, LAMBDA r : r.created_at >= t - days_back)
    IN  FirstK(Reverse(recent), limit)

\* WarmUserEmbedding.update_from_interaction: the updated embedding.
warm_weight(type) ==
    CASE type = "view" -> 50
      [] type = "like" -> 100
      [] type = "dislike" -> 0 - 50
      [] type = "add_to_cart" -> 150
      [] type = "purchase" -> 200
      [] OTHER -> 100

update_from_interaction(current_embedding, product_embedding, interaction_type) ==
    LET weight == warm_weight(interaction_type)
    IN  IF weight < 0
        THEN update_embedding(current_embedding, <<"neg", product_embedding>>, 100)
        ELSE update_embedding(current_embedding, product_embedding, weight)

\* for interaction in interactions: ... (the EWMA loop of build_user_embedding)
RECURSIVE ApplyInteractions(_, _, _)
ApplyInteractions(acc, interactions, embedded) ==
    IF interactions = <<>>
    THEN acc
    ELSE LET it == Head(interactions)
         IN  IF it.product \notin embedded
             THEN ApplyInteractions(acc, Tail(interactions), embedded)
             ELSE ApplyInteractions(
                      [embedding |-> update_from_interaction(
                                         acc.embedding, Of(it.product), it.interaction_type),
                       processed_count |-> acc.processed_count + 1],
                      Tail(interactions), embedded)

\* min(processed_count / 20.0, 1.0), in twentieths
Confidence(processed_count) == IF processed_count > 20 THEN 20 ELSE processed_count

\* UserEmbeddingBuilder.build_user_embedding; embedded is the set of
\* products that have an embedding row.
build_user_embedding(current_embedding, interactions, embedded) ==
    LET fallback == IF current_embedding = NoEmbedding
                    THEN RandomEmbedding ELSE current_embedding
    IN  IF Len(interactions) = 0
        THEN [embedding |-> fallback,
              metadata |-> [NoMeta EXCEPT !.status = "cold_start"]]
        ELSE IF \A i \in DOMAIN interactions : interactions[i].product \notin embedded
        THEN [embedding |-> fallback,
              metadata |-> [NoMeta EXCEPT !.status = "no_embeddings",
                                          !.interaction_count = Len(interactions)]]
        ELSE LET start == IF current_embedding # NoEmbedding
                          THEN current_embedding
                          ELSE IF interactions[1].product \in embedded
                          THEN Of(interactions[1].product)
                          ELSE RandomEmbedding
                 done == ApplyInteractions([embedding |-> start, processed_count |-> 0],
                                           interactions, embedded)
             IN  [embedding |-> done.embedding,
                  metadata |-> [status |-> "warm_user",
                                interaction_count |-> Len(interactions),
                                has_processed_count |-> TRUE,
                                processed_count |-> done.processed_count,
                                confidence |-> Confidence(done.processed_count),
                                updates |-> 0]]

\* UserEmbeddingBuilder.save_user_embedding, embedding_type = "long_term"
save_user_embedding(existing, embedding, meta) ==
    IF existing.exists
    THEN [exists |-> TRUE,
          long_term_embedding |-> embedding,
          interaction_count |-> IF meta.has_processed_count
                                THEN meta.processed_count
                                ELSE existing.interaction_count,
          confidence_score |-> meta.confidence]
    ELSE [exists |-> TRUE,
          long_term_embedding |-> embedding,
          interaction_count |-> IF meta.has_processed_count
                                THEN meta.processed_count ELSE 0,
          confidence_score |-> meta.confidence]

\* The user interacts with a product: a row of user_interactions.
StoreInteraction(p, type) ==
    /\ Len(user_interactions) < MaxInteractions
    /\ user_interactions' = Append(user_interactions,
           [product |-> p, interaction_type |-> type, created_at |-> today])
    /\ UNCHANGED <<user_embedding, today, lastMeta,
                   indexVars, filterVars, sessionVars, feedbackVars, redisVars, callVars>>

\* UserEmbeddingBuilder.update_user_embedding (the tasks.update_user_embedding
\* task), with the product embeddings the database holds at that time.
UpdateUserEmbedding(embedded) ==
    /\ lastMeta.updates < MaxUpdates
    /\ LET current_embedding == IF user_embedding.exists
                                THEN user_embedding.long_term_embedding
                                ELSE NoEmbedding
           interactions == get_recent_interactions(user_interactions, today,
                                                   max_interactions)
           built == build_user_embedding(current_embedding, interactions, embedded)
       IN  /\ user_embedding' = save_user_embedding(user_embedding, built.embedding,
                                                    built.metadata)
           /\ lastMeta' = [built.metadata EXCEPT !.updates = lastMeta.updates + 1]
    /\ UNCHANGED <<user_interactions, today,
                   indexVars, filterVars, sessionVars, feedbackVars, redisVars, callVars>>

AdvanceDays ==
    /\ today + DayStep <= MaxDay
    /\ today' = today + DayStep
    /\ UNCHANGED <<user_interactions, user_embedding, lastMeta,
                   indexVars, filterVars, sessionVars, feedbackVars, redisVars, callVars>>

ProfileInit ==
    /\ user_interactions = <<>>
    /\ user_embedding = NoRow
    /\ today = 0
    /\ lastMeta = NoMeta

(***************************************************************************)
(* RedisCache: the client of the cache store, and EmbeddingCache on top    *)
(* of it.  The server holds pickled product embeddings under               *)
(* "embedding:product:<id>", view counters under                           *)
(* "stats:product_views:<id>" and the sorted set "hot:products".           *)
(* A call returns <<"return", value>> or <<"raise", exception class>>.     *)
(***************************************************************************)
MaxViews == 2         \* views counted per product

RedisInit ==
    redis = [client |-> FALSE,
             up |-> TRUE,
             embeddings |-> {},
             views |-> [p \in Products |-> 0],
             hot |-> [p \in Products |-> 0]]

\* What the redis library raises when the server cannot be reached.
\* Both are subclasses of redis.RedisError.
ConnectionFailures == {"redis.ConnectionError", "redis.TimeoutError"}

None == <<"return", "None">>
True == <<"return", "True">>
False == <<"return", "False">>
Raise(exc) == <<"raise", exc>>
Value(v) == <<"return", v>>

\* RedisCache._get_client: the client is created on first use and kept,
\* also when the ping that follows fails; only redis.ConnectionError is
\* turned into RedisCacheError.
get_client(r, failure) ==
    IF r.client
    THEN [redis |-> r, raised |-> "no"]
    ELSE [redis |-> [r EXCEPT !.client = TRUE],
          raised |-> IF r.up THEN "no"
                     ELSE IF failure = "redis.ConnectionError"
                     THEN "RedisCacheError"
                     ELSE failure]

\* A command sent over a client: fails with a redis error when the server
\* cannot be reached.
Command(r, failure) == IF r.up THEN "no" ELSE failure

\* The exception a method body meets, if any: from _get_client or from the
\* command it sends next.
Attempt(r, failure) ==
    LET got == get_client(r, failure)
    IN  [redis |-> got.redis,
         raised |-> IF got.raised # "no" THEN got.raised
                    ELSE Command(got.redis, failure)]

IsRedisError(exc) == exc \in ConnectionFailures

\* RedisCache.get on a product key: except redis.RedisError, except
\* Exception.
redis_get(r, p, failure) ==
    LET a == Attempt(r, failure)
    IN  [redis |-> a.redis,
         result |-> IF a.raised # "no" THEN None
                    ELSE IF p \in r.embeddings THEN Value(Of(p)) ELSE None]

\* RedisCache.set on a product key: except redis.RedisError, except
\* Exception.
redis_set(r, p, failure) ==
    LET a == Attempt(r, failure)
    IN  IF a.raised # "no"
        THEN [redis |-> a.redis, result |-> False]
        ELSE [redis |-> [a.redis EXCEPT !.embeddings = @ \cup {p}], result |-> True]

\* RedisCache.delete on a product key: except redis.RedisError only.
redis_delete(r, p, failure) ==
    LET a == Attempt(r, failure)
    IN  IF a.raised # "no"
        THEN [redis |-> a.redis,
              result |-> IF IsRedisError(a.raised) THEN False ELSE Raise(a.raised)]
        ELSE [redis |-> [a.redis EXCEPT !.embeddings = @ \ {p}],
              result |-> IF p \in r.embeddings THEN True ELSE False]

\* RedisCache.get_many on product keys: {} without keys, else except
\* redis.RedisError only.  The result is the set of keys found.
redis_get_many(r, ps, failure) ==
    IF ps = {}
    THEN [redis |-> r, result |-> Value({})]
    ELSE LET a == Attempt(r, failure)
         IN  [redis |-> a.redis,
              result |-> IF a.raised = "no" THEN Value(ps \cap r.embeddings)
                         ELSE IF IsRedisError(a.raised) THEN Value({})
                         ELSE Raise(a.raised)]

\* RedisCache.increment on a view counter: except redis.RedisError only.
redis_increment(r, p, failure) ==
    LET a == Attempt(r, failure)
    IN  IF a.raised # "no"
        THEN [redis |-> a.redis,
              result |-> IF IsRedisError(a.raised) THEN None ELSE Raise(a.raised)]
        ELSE [redis |-> [a.redis EXCEPT !.views[p] = @ + 1],
              result |-> Value(r.views[p] + 1)]

\* EmbeddingCache.track_product_view: redis.increment, then zincrby on
\* redis._get_client() with nothing caught.
track_product_view(r, p, failure) ==
    LET inc == redis_increment(r, p, failure)
    IN  IF inc.result[1] = "raise"
        THEN inc
        ELSE LET a == Attempt(inc.redis, failure)
             IN  IF a.raised # "no"
                 THEN [redis |-> a.redis, result |-> Raise(a.raised)]
                 ELSE [redis |-> [a.redis EXCEPT !.hot[p] = @ + 1], result |-> None]

CallIdle ==
    /\ callIn = [op |-> "none"]
    /\ callOut = [op |-> "none"]

\* A call on the cache: op names the method, reachable says whether the
\* server could be reached while it ran.
CacheCall(op, arg, done) ==
    /\ redis' = done.redis
    /\ callIn' = [op |-> op, arg |-> arg, reachable |-> redis.up,
                  connected |-> redis.client]
    /\ callOut' = [op |-> op, result |-> done.result]
    /\ UNCHANGED <<indexVars, filterVars, sessionVars, feedbackVars, profileVars>>

RedisGet(p, failure) ==
    /\ p \in Products
    /\ CacheCall("get", p, redis_get(redis, p, failure))

RedisSet(p, failure) ==
    /\ p \in Products
    /\ CacheCall("set", p, redis_set(redis, p, failure))

RedisDelete(p, failure) ==
    /\ p \in Products
    /\ CacheCall("delete", p, redis_delete(redis, p, failure))

RedisGetMany(ps, failure) ==
    /\ ps \subseteq Products
    /\ CacheCall("get_many", ps, redis_get_many(redis, ps, failure))

RedisIncrement(p, failure) ==
    /\ redis.views[p] < MaxViews
    /\ CacheCall("increment", p, redis_increment(redis, p, failure))

TrackProductView(p, failure) ==
    /\ redis.views[p] < MaxViews
    /\ redis.hot[p] < MaxViews
    /\ CacheCall("track_product_view", p, track_product_view(redis, p, failure))

\* The server goes away, or comes back.
ServerFlips ==
    /\ redis' = [redis EXCEPT !.up = ~@]
    /\ UNCHANGED <<callVars, indexVars, filterVars, sessionVars, feedbackVars,
                   profileVars>>

(***************************************************************************)
(* ColdStartEmbedding: the first profile of a user, from the products      *)
(* picked in the style quiz.                                               *)
(***************************************************************************)
MaxSelections == 3    \* products picked in a style quiz

min_quiz_selections == 3

\* Sequences over S of length at most n.
SeqsUpTo(S, n) == UNION {[1..m -> S] : m \in 0..n}

\* np.mean(vectors, axis=0), then v / np.linalg.norm(v): nan when the mean
\* is the zero vector.
MeanDirection(vectors) ==
    LET sum == SumOf([i \in 1..Len(vectors) |-> [embedding |-> vectors[i]]])
    IN  IF sum = ZeroVec THEN <<"nan">> ELSE <<"vector", Direction(sum)>>

\* ColdStartEmbedding.from_product_selections
from_product_selections(product_embeddings) ==
    IF product_embeddings = <<>>
    THEN Raise("ValueError")
    ELSE Value(MeanDirection(product_embeddings))

\* ColdStartEmbedding.from_style_quiz: the result dict.  A count below
\* min_quiz_selections is logged and nothing else.
from_style_quiz(selected_product_ids, product_embeddings_dict) ==
    LET found == SelectSeq(selected_product_ids,
                           LAMBDA id : id \in product_embeddings_dict)
        selected_embeddings == [i \in 1..Len(found) |-> Emb(found[i])]
        made == from_product_selections(selected_embeddings)
        result == [user_embedding |-> NoEmbedding,
                   num_selections |-> Len(selected_product_ids),
                   success |-> FALSE,
                   method |-> "style_quiz",
                   valid_selections |-> Len(selected_embeddings),
                   error |-> "absent"]
    IN  IF selected_embeddings = <<>>
        THEN [result EXCEPT !.error = "no_valid_selections"]
        ELSE IF made[1] = "raise"
        THEN [result EXCEPT !.error = made[2]]
        ELSE [result EXCEPT !.user_embedding = made[2], !.success = TRUE]

\* create_user_from_quiz
create_user_from_quiz(selected_product_ids, product_embeddings) ==
    LET result == from_style_quiz(selected_product_ids, product_embeddings)
    IN  IF result.success THEN Value(result.user_embedding) ELSE Raise("ValueError")

\* Any quiz answer, over any set of products that have an embedding.
ColdStartInit ==
    /\ \E ids \in SeqsUpTo(Products, MaxSelections), dict \in SUBSET Products :
           callIn = [op |-> "style_quiz", selected_product_ids |-> ids,
                     product_embeddings |-> dict]
    /\ callOut = [op |-> "none"]

FromStyleQuiz ==
    /\ callIn.op = "style_quiz"
    /\ callOut' = [op |-> "from_style_quiz",
                   result |-> Value(from_style_quiz(callIn.selected_product_ids,
                                                    callIn.product_embeddings))]
    /\ UNCHANGED <<callIn, indexVars, filterVars, sessionVars, feedbackVars,
                   profileVars, redisVars>>

CreateUserFromQuiz ==
    /\ callIn.op = "style_quiz"
    /\ callOut' = [op |-> "create_user_from_quiz",
                   result |-> create_user_from_quiz(callIn.selected_product_ids,
                                                    callIn.product_embeddings)]
    /\ UNCHANGED <<callIn, indexVars, filterVars, sessionVars, feedbackVars,
                   profileVars, redisVars>>

(***************************************************************************)
(* HeuristicRanker.  Signals and weights are in hundredths, final scores   *)
(* in ten-thousandths.                                                     *)
(***************************************************************************)
MaxCandidates == 3    \* results handed to the ranker

similarity_weight == 60
popularity_weight == 25
price_affinity_weight == 10
brand_match_weight == 5

Candidates == 1..MaxCandidates
Similarities == {50, 100}
SignalScores == {0, 100}

\* scores.get(pid, 0.5) if scores else 0.5
SignalOf(scores, pid) == IF pid \in DOMAIN scores THEN scores[pid] ELSE 50

\* The weighted score the loop stores in result.metadata["final_score"].
final_score(result, popularity_scores, price_affinity_scores, brand_match_scores) ==
    similarity_weight * result.similarity
    + popularity_weight * SignalOf(popularity_scores, result.product_id)
    + price_affinity_weight * SignalOf(price_affinity_scores, result.product_id)
    + brand_match_weight * SignalOf(brand_match_scores, result.product_id)

\* list.sort(key=..., reverse=True): descending, and stable, so results
\* with equal keys stay in the order they had.
RECURSIVE InsertByScore(_, _)
InsertByScore(sorted, r) ==
    IF sorted = <<>>
    THEN <<r>>
    ELSE IF Head(sorted).final_score >= r.final_score
    THEN <<Head(sorted)>> \o InsertByScore(Tail(sorted), r)
    ELSE <<r>> \o sorted

RECURSIVE SortByScore(_)
SortByScore(results) ==
    IF results = <<>>
    THEN <<>>
    ELSE InsertByScore(SortByScore(SubSeq(results, 1, Len(results) - 1)),
                       results[Len(results)])

\* HeuristicRanker.rank_results
rank_results(results, popularity_scores, price_affinity_scores, brand_match_scores) ==
    IF Len(results) = 0
    THEN results
    ELSE LET scored == [i \in 1..Len(results) |->
                           [product_id |-> results[i].product_id,
                            similarity |-> results[i].similarity,
                            rank |-> results[i].rank,
                            final_score |-> final_score(results[i], popularity_scores,
                                                        price_affinity_scores,
                                                        brand_match_scores)]]
         IN  Rerank(SortByScore(scored))

\* Any list of distinct candidates, in any order, with any popularity scores.
RankerInit ==
    /\ \E ids \in SeqsUpTo(Candidates, MaxCandidates) :
       \E sim \in [Candidates -> Similarities] :
       \E known \in SUBSET Candidates :
       \E popularity_scores \in [known -> SignalScores] :
           /\ \A i, j \in DOMAIN ids : i # j => ids[i] # ids[j]
           /\ callIn = [op |-> "rank",
                        results |-> [i \in DOMAIN ids |->
                                        [product_id |-> ids[i], similarity |-> sim[ids[i]],
                                         rank |-> i - 1, final_score |-> 0]],
                        popularity_scores |-> popularity_scores]
    /\ callOut = [op |-> "none"]

RankResults ==
    /\ callIn.op = "rank"
    /\ callOut' = [op |-> "rank_results",
                   result |-> rank_results(callIn.results, callIn.popularity_scores,
                                           EmptyArr, EmptyArr)]
    /\ UNCHANGED <<callIn, indexVars, filterVars, sessionVars, feedbackVars,
                   profileVars, redisVars>>

(***************************************************************************)
(* Embedding updates on vectors.  The arguments are embeddings as they are *)
(* stored (length 5, or None); a result, being normalized, is kept as the  *)
(* shortest integer vector of its direction.                               *)
(***************************************************************************)
\* The InteractionType values, and a type that has no weight entry.
InteractionTypes ==
    {"purchase", "thumbs_up", "like", "add_to_cart", "click", "view",
     "dismiss", "remove_from_cart", "thumbs_down", "dislike", "share"}

\* interaction_weight values handed to update_embedding, in hundredths
InteractionWeights == {0, 50, 100, 200}

NoVector == [kind |-> "none", v |-> ZeroVec]
Vector(v) == [kind |-> "vector", v |-> v]
StoredEmbeddings == {NoVector} \cup {Vector(UnitVectors[j]) : j \in DOMAIN UnitVectors}

Times(c, v) == <<c * v[1], c * v[2]>>
Plus(a, b) == <<a[1] + b[1], a[2] + b[2]>>

\* new_embedding / np.linalg.norm(new_embedding)
Normalized(v) == IF v = ZeroVec THEN [kind |-> "nan", v |-> ZeroVec] ELSE Vector(Direction(v))

\* WarmUserEmbedding.update_embedding.  adjusted_alpha = alpha / weight is a
\* division of Python floats unless the caller passes a numpy scalar
\* (numpy), which divides to inf; the clip then leaves a number in [0, 1].
\* The sum is computed weight times too long, which the normalization undoes.
warm_update_embedding(current_embedding, interaction_embedding, interaction_weight, numpy) ==
    IF interaction_weight = 0 /\ ~numpy
    THEN Raise("ZeroDivisionError")
    ELSE IF current_embedding.kind = "none"
    THEN Raise("TypeError")
    ELSE IF interaction_weight < 0
    THEN Value(Normalized(interaction_embedding))
    ELSE IF ewma_alpha >= interaction_weight
    THEN Value(Normalized(current_embedding.v))
    ELSE Value(Normalized(Plus(Times(ewma_alpha, current_embedding.v),
                               Times(interaction_weight - ewma_alpha,
                                     interaction_embedding))))

\* WarmUserEmbedding.update_from_interaction on vectors.  A negative weight turns the
\* product embedding round, scaled by the weight, and the update runs with
\* weight 1.0; both vectors are taken a hundred times too long.
warm_update_from_interaction(current_embedding, product_emb, interaction_type) ==
    LET weight == warm_weight(interaction_type)
        updated == IF weight < 0
                   THEN warm_update_embedding(
                            [current_embedding EXCEPT !.v = Times(100, @)],
                            Times(0 - Abs(weight), product_emb), 100, FALSE)
                   ELSE warm_update_embedding(current_embedding, product_emb,
                                              weight, FALSE)
    IN  IF updated[1] = "raise"
        THEN [success |-> FALSE, updated_embedding |-> NoVector]
        ELSE [success |-> TRUE, updated_embedding |-> updated[2]]

\* FeedbackHandler._update_long_term_embedding: the embedding it caches and
\* returns.  current - 0.1 * (product - current) is taken ten times too long.
update_long_term_embedding(current_embedding, product_embedding, weight) ==
    IF current_embedding.kind = "none"
    THEN Vector(Direction(product_embedding))
    ELSE IF weight < 0
    THEN Normalized(Plus(Times(11, current_embedding.v),
                         Times(0 - 1, product_embedding)))
    ELSE warm_update_embedding(current_embedding, product_embedding,
                               Abs(weight), FALSE)[2]

\* process_event, the long-term part: a weight of zero skips the update.
process_event_long_term(current_embedding, product_embedding, interaction_type) ==
    LET weight == handler_weight(interaction_type)
    IN  IF weight # 0
        THEN [long_term_updated |-> TRUE,
              long_term |-> update_long_term_embedding(current_embedding,
                                                       product_embedding, weight)]
        ELSE [long_term_updated |-> FALSE, long_term |-> current_embedding]

\* Any stored embedding of the user, any product, any interaction.
WarmInit ==
    /\ \E current \in StoredEmbeddings, p \in Products, type \in InteractionTypes,
          weight \in InteractionWeights, numpy \in BOOLEAN :
           callIn = [op |-> "interaction", current |-> current, product |-> p,
                     type |-> type, weight |-> weight, numpy |-> numpy]
    /\ callOut = [op |-> "none"]

ProcessEventLongTerm ==
    /\ callIn.op = "interaction"
    /\ callOut' = [op |-> "process_event",
                   result |-> process_event_long_term(callIn.current,
                                                      Emb(callIn.product),
                                                      callIn.type)]
    /\ UNCHANGED <<callIn, indexVars, filterVars, sessionVars, feedbackVars,
                   profileVars, redisVars>>

UpdateFromInteraction ==
    /\ callIn.op = "interaction"
    /\ callOut' = [op |-> "update_from_interaction",
                   result |-> warm_update_from_interaction(callIn.current,
                                                           Emb(callIn.product),
                                                      callIn.type)]
    /\ UNCHANGED <<callIn, indexVars, filterVars, sessionVars, feedbackVars,
                   profileVars, redisVars>>

UpdateEmbedding ==
    /\ callIn.op = "interaction"
    /\ callOut' = [op |-> "update_embedding",
                   result |-> warm_update_embedding(callIn.current,
                                                    Emb(callIn.product),
                                                    callIn.weight, callIn.numpy)]
    /\ UNCHANGED <<callIn, indexVars, filterVars, sessionVars, feedbackVars,
                   profileVars, redisVars>>

(***************************************************************************)
(* UserEmbeddingBlender and PersonalizedSearch.recommend_for_user.  Blend  *)
(* weights are in hundredths.                                              *)
(***************************************************************************)
long_term_alpha == 70 \* config.user_modeling.long_term_alpha

Contexts == {"feed", "search", "similar", "explore", "onboard", "category"}

\* UserEmbeddingBlender._get_alpha_for_context
get_alpha_for_context(context) ==
    CASE context = "feed" -> 70
      [] context = "search" -> 30
      [] context = "similar" -> 90
      [] context = "explore" -> 50
      [] context = "onboard" -> 100
      [] OTHER -> long_term_alpha

\* alpha=None, and the blend weights a caller passes
NoAlpha == 0 - 1
Alphas == {NoAlpha, 0, 50, 100}

\* blend that mixes whatever it is given, a missing side counting as zero.
blend_always_mixing(long_term_embedding, session_embedding, given_alpha, context) ==
    LET alpha == IF given_alpha = NoAlpha THEN get_alpha_for_context(context)
                 ELSE given_alpha
    IN  [blended_embedding |->
             Normalized(Plus(Times(alpha, long_term_embedding.v),
                             Times(100 - alpha, session_embedding.v))),
         has_long_term |-> long_term_embedding.kind # "none",
         has_session |-> session_embedding.kind # "none",
         alpha |-> alpha, context |-> context, success |-> TRUE,
         blend_type |-> "full", error |-> "unset"]

\* UserEmbeddingBlender.blend
blend(long_term_embedding, session_embedding, given_alpha, context) ==
    LET alpha == IF given_alpha = NoAlpha THEN get_alpha_for_context(context)
                 ELSE given_alpha
        result == [blended_embedding |-> NoVector,
                   has_long_term |-> long_term_embedding.kind # "none",
                   has_session |-> session_embedding.kind # "none",
                   alpha |-> alpha, context |-> context, success |-> FALSE,
                   blend_type |-> "unset", error |-> "unset"]
    IN  IF long_term_embedding.kind # "none" /\ session_embedding.kind # "none"
        THEN [result EXCEPT
                 !.blended_embedding =
                     Normalized(Plus(Times(alpha, long_term_embedding.v),
                                     Times(100 - alpha, session_embedding.v))),
                 !.blend_type = "full", !.success = TRUE]
        ELSE IF long_term_embedding.kind # "none"
        THEN [result EXCEPT !.blended_embedding = long_term_embedding,
                            !.blend_type = "long_term_only", !.success = TRUE]
        ELSE IF session_embedding.kind # "none"
        THEN [result EXCEPT !.blended_embedding = session_embedding,
                            !.blend_type = "session_only", !.success = TRUE]
        ELSE [result EXCEPT !.blend_type = "none", !.error = "no_embeddings"]

\* PersonalizedSearch._get_user_query_vector
get_user_query_vector(user_context, context) ==
    IF user_context.is_anonymous
    THEN NoVector
    ELSE IF user_context.long_term_embedding.kind = "none"
            /\ user_context.session_embedding.kind = "none"
    THEN NoVector
    ELSE blend(user_context.long_term_embedding, user_context.session_embedding,
               NoAlpha, context).blended_embedding

\* The SearchResults dataclass (search_time_ms left out).
PersonalizedResults(results, query_vector_shape, k) ==
    [results |-> results, query_vector_shape |-> query_vector_shape, k |-> k,
     total_found |-> Len(results)]

\* SearchResults.to_dict: what the API response carries.
to_dict(r) == [results |-> r.results, k |-> r.k, total_found |-> r.total_found]

\* PersonalizedSearch.recommend_for_user without filters; found is what the
\* similarity search returns for the query vector.
recommend_for_user(user_context, k, context, use_ranking, found) ==
    LET query_vector == get_user_query_vector(user_context, context)
        search_k == IF use_ranking THEN k * 2 ELSE k
        results == FirstK(found, search_k)
    IN  IF query_vector.kind = "none"
        THEN PersonalizedResults(<<>>, 0, k)
        ELSE IF use_ranking /\ Len(results) > 0
        THEN PersonalizedResults(
                 FirstK(rank_results(results, EmptyArr, EmptyArr, EmptyArr), k),
                 dimension, search_k)
        ELSE PersonalizedResults(results, dimension, search_k)

\* PersonalizedSearch.recommend_for_anonymous
recommend_for_anonymous(k) == PersonalizedResults(<<>>, 0, k)

\* The embeddings a user context carries.
ContextEmbeddings ==
    {NoVector, Vector(UnitVectors[1]), Vector(UnitVectors[3]), Vector(UnitVectors[7])}

\* The hits of a similarity search, best first.
Hits(ids) ==
    [i \in DOMAIN ids |-> [product_id |-> ids[i], similarity |-> 100 - 10 * i,
                           rank |-> i - 1, final_score |-> 0]]

\* Any user context, any request context, any k, any search outcome.
RecommendInit ==
    /\ \E long_term \in ContextEmbeddings, session \in ContextEmbeddings,
          is_anonymous \in BOOLEAN, context \in Contexts, k \in 1..MaxK,
          use_ranking \in BOOLEAN, ids \in SeqsUpTo(Products, MaxProducts),
          alpha \in Alphas :
           /\ \A i, j \in DOMAIN ids : i # j => ids[i] # ids[j]
           /\ callIn = [op |-> "recommend",
                        user_context |-> [long_term_embedding |-> long_term,
                                          session_embedding |-> session,
                                          is_anonymous |-> is_anonymous],
                        context |-> context, alpha |-> alpha, k |-> k,
                        use_ranking |-> use_ranking,
                        found |-> Hits(ids)]
    /\ callOut = [op |-> "none"]

Blend ==
    /\ callIn.op = "recommend"
    /\ callOut' = [op |-> "blend",
                   result |-> blend(callIn.user_context.long_term_embedding,
                                    callIn.user_context.session_embedding,
                                    callIn.alpha, callIn.context)]
    /\ UNCHANGED <<callIn, indexVars, filterVars, sessionVars, feedbackVars,
                   profileVars, redisVars>>

RecommendForUser ==
    /\ callIn.op = "recommend"
    /\ callOut' = [op |-> "recommend_for_user",
                   result |-> recommend_for_user(callIn.user_context, callIn.k,
                                                 callIn.context, callIn.use_ranking,
                                                 callIn.found)]
    /\ UNCHANGED <<callIn, indexVars, filterVars, sessionVars, feedbackVars,
                   profileVars, redisVars>>

RecommendForAnonymous ==
    /\ callIn.op = "recommend"
    /\ callIn.user_context.is_anonymous
    /\ callOut' = [op |-> "recommend_for_anonymous",
                   result |-> recommend_for_anonymous(callIn.k)]
    /\ UNCHANGED <<callIn, indexVars, filterVars, sessionVars, feedbackVars,
                   profileVars, redisVars>>

(***************************************************************************)
(* Start of the system: nothing loaded, nothing cached, no history.        *)
(***************************************************************************)
Init ==
    /\ IndexInit /\ FilterIdle /\ SessionInit /\ FeedbackInit /\ ProfileInit
    /\ RedisInit /\ CallIdle

(***************************************************************************)
(* Steps of the methods, grouped.                                          *)
(***************************************************************************)
BuildSteps(t) ==
    \/ BuildFetch(t)
    \/ BuildLock(t)
    \/ BuildBuild(t)
    \/ BuildSwap(t)
    \/ SaveIndexFile(t)
    \/ SaveMappingFile(t)
    \/ SaveMetaFile(t)

LoadSteps(t) ==
    \/ LoadLock(t)
    \/ LoadLoad(t)

SearchSteps(t) ==
    \/ SearchCheck(t)
    \/ SearchGetIndex(t)
    \/ SearchGetMapping(t)
    \/ SearchQuery(t)

ProductSteps(t) ==
    \/ ProductPosition(t)
    \/ ProductCheck(t)
    \/ ProductReconstruct(t)

(***************************************************************************)
(* Spec: one thread rebuilds the index and loads it from disk while        *)
(* another serves read requests.                                           *)
(***************************************************************************)
Writer == "t1"
Reader == "t2"

Next ==
    \/ CallBuildIndexFromDb(Writer)
    \/ CallLoadIndexFromDisk(Writer)
    \/ BuildSteps(Writer)
    \/ LoadSteps(Writer)
    \/ Return(Writer)
    \/ \E p \in Products, k \in 1..MaxK : CallSearch(Reader, Emb(p), k)
    \/ \E id \in ProductIds, k \in 1..MaxK, x \in BOOLEAN :
           CallSearchByProductId(Reader, id, k, x)
    \/ \E id \in ProductIds : CallGetProductVector(Reader, id)
    \/ SearchSteps(Reader)
    \/ ProductSteps(Reader)
    \/ Return(Reader)

Spec == Init /\ [][Next]_vars

(***************************************************************************)
(* SpecSingleton: the threads construct the manager at the same time, and  *)
(* a thread that has it builds the index.                                  *)
(***************************************************************************)
InitSingleton ==
    /\ IndexFieldsInit /\ mgr = NoManager
    /\ FilterIdle /\ SessionInit /\ FeedbackInit /\ ProfileInit /\ RedisInit /\ CallIdle

NextSingleton ==
    \/ \E t \in Threads : ManagerNew(t)
    \/ \E t \in Threads : ManagerInitCheck(t)
    \/ \E t \in Threads : ManagerInitState(t)
    \/ \E t \in Threads : ManagerInitLock(t)
    \/ \E t \in Threads : HolderBuilds(t)
    \/ \E t \in Threads : BuildSteps(t)
    \/ \E t \in Threads : Return(t)

SpecSingleton == InitSingleton /\ [][NextSingleton]_vars

(***************************************************************************)
(* SpecLifecycle: build, load, ensure and reset one after the other, over  *)
(* any catalog content, with writes to disk failing and time passing.      *)
(***************************************************************************)
NextLifecycle ==
    \/ CallBuildIndexFromDb(Writer)
    \/ CallLoadIndexFromDisk(Writer)
    \/ CallEnsureIndexLoaded(Writer)
    \/ EnsureCheck(Writer)
    \/ Reset(Writer)
    \/ BuildSteps(Writer)
    \/ SaveFails(Writer)
    \/ LoadSteps(Writer)
    \/ Return(Writer)
    \/ Tick

SpecLifecycle == Init /\ [][NextLifecycle]_vars

(***************************************************************************)
(* SpecEnsure: every thread calls ensure_index_loaded (the startup thread  *)
(* and request handlers); reset empties the manager again.                 *)
(***************************************************************************)
NextEnsure ==
    \/ \E t \in Threads :
        \/ CallEnsureIndexLoaded(t)
        \/ EnsureCheck(t)
        \/ LoadSteps(t)
        \/ BuildSteps(t)
        \/ Return(t)
        \/ Reset(t)

SpecEnsure == Init /\ [][NextEnsure]_vars

(***************************************************************************)
(* SpecFilter: search_with_filters under each strategy, on any catalog,    *)
(* filter, query vector and k.                                             *)
(***************************************************************************)
\* Everything but the library call at rest.
AtRest ==
    /\ IndexInit /\ FilterIdle /\ SessionInit /\ FeedbackInit /\ ProfileInit
    /\ RedisInit

InitFilter ==
    /\ IndexInit /\ FilterInit /\ SessionInit /\ FeedbackInit /\ ProfileInit
    /\ RedisInit /\ CallIdle

NextFilter ==
    \/ \E s \in Strategies : SearchWithFilters(s)

SpecFilter == InitFilter /\ [][NextFilter]_vars

(***************************************************************************)
(* SpecSession: interactions and reads on the session manager as time      *)
(* passes.                                                                 *)
(***************************************************************************)
NextSession ==
    \/ \E u \in Users, p \in Products : SessionAddInteraction(u, p)
    \/ \E u \in Users : SessionGetEmbedding(u)
    \/ CleanupInactiveSessions
    \/ \E d \in {session_timeout_minutes - 1, session_timeout_minutes} : ClockAdvance(d)

SpecSession == Init /\ [][NextSession]_vars

(***************************************************************************)
(* SpecWindow: one session object takes interaction after interaction.     *)
(***************************************************************************)
NextWindow ==
    \/ \E u \in Users : SessionGetEmbedding(u)
    \/ \E u \in Users, p \in Products : EmbeddingAddInteraction(u, p)

SpecWindow == Init /\ [][NextWindow]_vars

(***************************************************************************)
(* SpecCache: calls on the cache while the server comes and goes.          *)
(***************************************************************************)
NextCache ==
    \/ \E p \in Products, failure \in ConnectionFailures :
        \/ RedisGet(p, failure)
        \/ RedisSet(p, failure)
        \/ RedisDelete(p, failure)
        \/ RedisIncrement(p, failure)
        \/ TrackProductView(p, failure)
    \/ \E ps \in SUBSET Products, failure \in ConnectionFailures :
           RedisGetMany(ps, failure)
    \/ ServerFlips

SpecCache == Init /\ [][NextCache]_vars

(***************************************************************************)
(* SpecColdStart: a style quiz answer is turned into a profile.            *)
(***************************************************************************)
InitColdStart == AtRest /\ ColdStartInit

NextColdStart ==
    \/ FromStyleQuiz
    \/ CreateUserFromQuiz

SpecColdStart == InitColdStart /\ [][NextColdStart]_vars

(***************************************************************************)
(* SpecRanker: a list of search results is re-ranked.                      *)
(***************************************************************************)
InitRanker == AtRest /\ RankerInit

NextRanker == RankResults

SpecRanker == InitRanker /\ [][NextRanker]_vars

(***************************************************************************)
(* SpecWarm: one interaction is applied to a user's long-term embedding.   *)
(***************************************************************************)
InitWarm == AtRest /\ WarmInit

NextWarm ==
    \/ ProcessEventLongTerm
    \/ UpdateFromInteraction
    \/ UpdateEmbedding

SpecWarm == InitWarm /\ [][NextWarm]_vars

(***************************************************************************)
(* SpecRecommend: a user context is blended and recommendations are made.  *)
(***************************************************************************)
InitRecommend == AtRest /\ RecommendInit

NextRecommend ==
    \/ Blend
    \/ RecommendForUser
    \/ RecommendForAnonymous

SpecRecommend == InitRecommend /\ [][NextRecommend]_vars

(***************************************************************************)
(* SpecFeedback: two handlers process feedback events of one user at the   *)
(* same time.                                                              *)
(***************************************************************************)
NextFeedback ==
    \/ \E h \in Handlers, p \in Products, type \in EventTypes :
           CallProcessEvent(h, p, type)
    \/ \E h \in Handlers, p \in Products, type \in EventTypes :
           CallRecordFeedback(h, p, type)
    \/ \E h \in Handlers :
        \/ LongTermGet(h)
        \/ LongTermSet(h)
        \/ EventSession(h)
        \/ RecordStore(h)
        \/ SessionGet(h)
        \/ SessionSet(h)
        \/ RecordInvalidate(h)
    \/ NextRound

SpecFeedback == Init /\ [][NextFeedback]_vars

(***************************************************************************)
(* SpecProfile: the user interacts, days pass, and the update task         *)
(* rebuilds the long-term profile.                                         *)
(***************************************************************************)
NextProfile ==
    \/ \E p \in Products, type \in ProfileTypes : StoreInteraction(p, type)
    \/ \E embedded \in SUBSET Products : UpdateUserEmbedding(embedded)
    \/ AdvanceDays

SpecProfile == Init /\ [][NextProfile]_vars

(***************************************************************************)
(* Properties of the index manager.                                        *)
(***************************************************************************)
LockingPcs == {"s_get_index", "s_get_mapping", "p_position", "p_reconstruct"}
BuildFailures == {"FAISSIndexManagerError", "FAISSIndexBuilderError"}

\* id_mapping and reverse_mapping are inverses of each other.
ExactInverses(m, r) ==
    /\ \A i \in DOMAIN m : m[i] \in DOMAIN r /\ r[m[i]] = i
    /\ \A id \in DOMAIN r : r[id] \in DOMAIN m /\ m[r[id]] = id

Quiescent ==
    /\ index_lock = "free"
    /\ \A t \in Threads : pc[t] \in {"idle", "done"}

\* C1: a search that ran while the index was being rebuilt worked on an
\* index with as many vectors as its id mapping has entries, and every
\* position the index returned was found in the mapping.
C1_SearchSeesMatchingIndexAndMapping ==
    (pc[Reader] = "done" /\ loc[Reader].op = "search" /\ loc[Reader].outcome = "ok")
        => /\ ntotal(loc[Reader].lidx) = ArrLen(loc[Reader].lmap)
           /\ loc[Reader].missed = 0

\* C2: a read by product id that overlaps a rebuild or load takes the
\* position and the index from the same build: the vector
\* get_product_vector returns is the embedding of the product asked for.
C2_ReadUsesOneBuild ==
    (pc[Reader] = "done" /\ loc[Reader].op = "get_product_vector"
                         /\ loc[Reader].outcome = "ok")
        => loc[Reader].vector = Emb(loc[Reader].pid[2])

\* C3: a rebuild that found zero embeddings, or embeddings of the wrong
\* dimension, reports failure and leaves index, id_mapping, reverse_mapping
\* and last_rebuild as they were; get_stats reports the same as before.
C3_FailedRebuildChangesNothing ==
    (/\ pc[Writer] = "done"
     /\ loc[Writer].op = "build_index_from_db"
     /\ \/ ArrLen(loc[Writer].embeddings) = 0
        \/ Len(loc[Writer].embeddings[0]) # dimension)
        => /\ loc[Writer].outcome \in BuildFailures
           /\ loc[Writer].before =
                  <<index, id_mapping, reverse_mapping, last_rebuild, get_stats>>

\* A rebuild failed on embeddings of the wrong dimension, later than the
\* last successful rebuild of a loaded index.
C3_Witness ==
    /\ pc[Writer] = "done"
    /\ loc[Writer].op = "build_index_from_db"
    /\ loc[Writer].outcome = "FAISSIndexBuilderError"
    /\ ArrLen(loc[Writer].embeddings) > 0
    /\ index.loaded
    /\ last_rebuild # NoTime
    /\ last_rebuild < now

\* C4: of the threads that called ensure_index_loaded while no snapshot
\* was on disk, exactly one loads or builds the index.
C4_OneLoadOrBuild ==
    (\A t \in Threads : loc[t].op = "ensure_index_loaded" /\ loc[t].cold)
        => ensureLoads <= 1

\* C6: no reader waits for the lock while the rebuild builds the new index
\* or writes it to disk; only the swap keeps readers out.
C6_ReadersWaitOnlyForSwap ==
    ~ /\ pc[Reader] \in LockingPcs
      /\ index_lock = Writer
      /\ pc[Writer] \in {"b_build", "b_save_index", "b_save_mapping", "b_save_meta"}

\* C7: whenever no operation is in progress, id_mapping and reverse_mapping
\* are exact inverses and the index holds as many vectors as id_mapping has
\* entries.
C7_MappingsConsistent ==
    Quiescent => /\ ExactInverses(id_mapping, reverse_mapping)
                 /\ ntotal(index) = ArrLen(id_mapping)

\* C15: a load from disk that succeeded read three pieces of one save: the
\* metadata record is there, the index holds as many vectors as the mapping
\* has entries and as the metadata counts, and every vector is the
\* embedding of the product the mapping names at its position.
C15_LoadedSnapshotIsOneSave ==
    (/\ pc[Writer] = "done"
     /\ loc[Writer].op = "load_index_from_disk"
     /\ loc[Writer].outcome = "ok")
        => /\ metadata.has_created_at
           /\ ntotal(index) = ArrLen(id_mapping)
           /\ disk.meta.num_vectors = ntotal(index)
           /\ \A i \in DOMAIN id_mapping :
                  i \in DOMAIN index.vecs /\ index.vecs[i] = Emb(id_mapping[i][2])

(***************************************************************************)
(* Properties of the user model and of filtered search.                    *)
(***************************************************************************)
HandlersDone(op) == {h \in Handlers : hpc[h] = "done" /\ hloc[h].op = op}

\* Every order in which the handlers of H can run one after the other.
Orders(H) ==
    {o \in [1..Cardinality(H) -> H] : \A i, j \in DOMAIN o : i # j => o[i] # o[j]}

RECURSIVE LongTermAfter(_, _, _)
LongTermAfter(start, order, i) ==
    IF i > Len(order)
    THEN start
    ELSE LongTermAfter(long_term_update(start, Of(hloc[order[i]].product),
                                        handler_weight(hloc[order[i]].type)),
                       order, i + 1)

RECURSIVE SessionAfter(_, _, _)
SessionAfter(start, order, i) ==
    IF i > Len(order)
    THEN start
    ELSE SessionAfter(session_update(start, Of(hloc[order[i]].product),
                                     router_weight(hloc[order[i]].type)),
                      order, i + 1)

\* C5: once the handlers that processed interactions of the user at the
\* same time have finished, the cached long-term and session embeddings
\* are what applying their updates one after the other, in some order,
\* gives: no update is lost.
C5_NoLostUpdate ==
    (\A h \in Handlers : hpc[h] \in {"idle", "done"})
        => /\ cache.long_term \in
                  {LongTermAfter(base.long_term, o, 1) :
                       o \in Orders(HandlersDone("process_event"))}
           /\ cache.session \in
                  {SessionAfter(base.session, o, 1) :
                       o \in Orders(HandlersDone("record_feedback"))}

ResultIds(res) == [i \in 1..Len(res.results) |-> res.results[i].product_id]

\* C8: on the same query vector, filter and index, the subset strategy and
\* the postfilter strategy return the same product ids in the same order.
C8_StrategiesAgree ==
    (filterOut["subset"].returned /\ filterOut["postfilter"].returned)
        => ResultIds(filterOut["subset"]) = ResultIds(filterOut["postfilter"])

\* C9: no update takes a warm user back to cold_start, and none lowers
\* interaction_count.
C9_ProfileMovesForward ==
    [][/\ lastMeta.status = "warm_user" => lastMeta'.status # "cold_start"
       /\ user_embedding'.interaction_count >= user_embedding.interaction_count
      ]_profileVars

\* C10: a call that finds the user's session without activity for the
\* timeout leaves a new session holding nothing of the old window (nothing
\* at all after a read, only the new interaction after an add), a read
\* then returns no vector, and no session ever holds an entry older than
\* the last timeout found for its user.
C10_TimedOutSessionStartsEmpty ==
    /\ sessionOut.timed_out =>
           /\ \A i \in DOMAIN sessionOut.window, j \in DOMAIN sessionOut.old :
                  sessionOut.window[i] # sessionOut.old[j]
           /\ sessionOut.kind = "get" =>
                  /\ sessionOut.window = <<>>
                  /\ sessionOut.vector.kind = "none"
           /\ sessionOut.kind = "add" => Len(sessionOut.window) = 1
    /\ \A u \in Users : \A i \in DOMAIN sessions[u].interactions :
           sessions[u].interactions[i].timestamp >= expiredAt[u]
    /\ sessionOut.kind = "get" =>
           \A i \in DOMAIN sessionOut.window :
               sessionOut.window[i].timestamp >= expiredAt[sessionOut.user_id]

\* A session vector was computed after the user's earlier session, which
\* held interactions, had timed out.
C10_Witness ==
    /\ sessionOut.kind = "get"
    /\ sessionOut.vector.kind = "vector"
    /\ expiredAt[sessionOut.user_id] # NoTime
    /\ sessionOut.window # <<>>


\* C11: no session window holds more than session_window_size entries; an
\* add to a full window drops exactly the oldest entry and keeps the others
\* in arrival order, followed by the new entry; an add to a window that is
\* not full drops nothing.
C11_WindowBounded ==
    /\ \A u \in Users : Len(sessions[u].interactions) <= session_window_size
    /\ sessionOut.kind = "append" =>
           LET old == sessionOut.old
               window == sessionOut.window
           IN  /\ Len(window) >= 1
               /\ window[Len(window)].timestamp = clock
               /\ Len(old) < session_window_size =>
                      SubSeq(window, 1, Len(window) - 1) = old
               /\ Len(old) = session_window_size =>
                      /\ Len(window) = session_window_size
                      /\ SubSeq(window, 1, Len(window) - 1) = Tail(old)

\* An interaction was added to a full window whose oldest entry differs from
\* the next one.
C11_Witness ==
    /\ sessionOut.kind = "append"
    /\ Len(sessionOut.old) = session_window_size
    /\ sessionOut.old[1].embedding # sessionOut.old[2].embedding


(***************************************************************************)
(* Properties of the cache.                                                *)
(***************************************************************************)
\* C12: a call on the cache made while the server cannot be reached raises
\* nothing: a read (get, get_many) returns a miss, and a write, delete or
\* counter update returns its failure value.
C12_UnreachableStoreDegrades ==
    (callOut.op \in {"get", "set", "delete", "get_many", "increment",
                     "track_product_view"} /\ ~callIn.reachable)
        => /\ callOut.result[1] # "raise"
           /\ callOut.op \in {"get", "increment", "track_product_view"} =>
                  callOut.result = None
           /\ callOut.op = "get_many" /\ callIn.arg # {} =>
                  callOut.result = Value({})
           /\ callOut.op \in {"set", "delete"} => callOut.result = False


\* C13: when record_feedback has answered, with no other request of the
\* user in progress meanwhile, the long-term embedding the cache held when
\* the request arrived is no longer there.  (The session embedding is
\* rewritten by the request itself.)
C13_InteractionInvalidatesCache ==
    \A h \in Handlers :
        (/\ hpc[h] = "done"
         /\ hloc[h].op = "record_feedback"
         /\ \A g \in Handlers \ {h} : hpc[g] = "idle"
         /\ hloc[h].cached # NoEmbedding)
            => cache.long_term # hloc[h].cached


(***************************************************************************)
(* Properties of the user model's functions.                               *)
(***************************************************************************)
\* C14: a style quiz answer with fewer than min_quiz_selections selections
\* raises nothing and yields the default random embedding, not a profile
\* built from the selections, and reports no success (zero confidence).
C14_TooFewSelectionsFallBack ==
    (/\ callOut.op \in {"from_style_quiz", "create_user_from_quiz"}
     /\ Len(callIn.selected_product_ids) < min_quiz_selections)
        => /\ callOut.result[1] # "raise"
           /\ callOut.op = "from_style_quiz" =>
                  /\ callOut.result[2].user_embedding[1] = RandomEmbedding[1]
                  /\ ~callOut.result[2].success
           /\ callOut.op = "create_user_from_quiz" =>
                  callOut.result[2][1] = RandomEmbedding[1]


\* The lists that hold the same results as list, in every order.
PermutationsOf(list) ==
    {[i \in DOMAIN list |-> list[f[i]]] :
        f \in {g \in [DOMAIN list -> DOMAIN list] :
                  \A i, j \in DOMAIN list : i # j => g[i] # g[j]}}

ScoreOf(ranked, pid) ==
    LET i == CHOOSE i \in DOMAIN ranked : ranked[i].product_id = pid
    IN  ranked[i].final_score

\* C16: ranking any permutation of the candidate list gives every candidate
\* the same final score and gives the same final order as ranking the list
\* itself.
C16_RankingIgnoresInputOrder ==
    callOut.op = "rank_results" =>
        \A perm \in PermutationsOf(callIn.results) :
            LET other == rank_results(perm, callIn.popularity_scores, EmptyArr, EmptyArr)
            IN  /\ \A i \in DOMAIN other :
                       ScoreOf(callOut.result, other[i].product_id) = other[i].final_score
                /\ [i \in DOMAIN other |-> other[i].product_id]
                       = [i \in DOMAIN callOut.result |-> callOut.result[i].product_id]


\* C17: when the filters match no product, search_with_filters raises
\* nothing and returns an empty result set with total_found 0, without
\* having asked for the index.
C17_EmptyFilterReturnsEmpty ==
    \A strategy \in Strategies :
        (/\ filterIn.allowed = {}
         /\ filterOut[strategy].returned \/ filterOut[strategy].raised # "no")
            => /\ filterOut[strategy].raised = "no"
               /\ filterOut[strategy].results = <<>>
               /\ filterOut[strategy].total_found = 0
               /\ ~filterOut[strategy].index_accessed


Dot(a, b) == a[1] * b[1] + a[2] * b[2]

\* cos(a, e) <= cos(b, e) for non-zero vectors: Dot(a, e) * |b| <= Dot(b, e) * |a|,
\* compared by sign and by square.
CosLeq(a, b, e) ==
    LET x == Dot(a, e)
        y == Dot(b, e)
    IN  IF x <= 0 /\ y >= 0 THEN TRUE
        ELSE IF x > 0 /\ y < 0 THEN FALSE
        ELSE IF x > 0
        THEN x * x * Dot(b, b) <= y * y * Dot(a, a)
        ELSE x * x * Dot(b, b) >= y * y * Dot(a, a)

\* The vector v lies no nearer to the embedding e than the stored embedding
\* before did; a user who had none is left with none or with a vector that
\* does not point toward e.
NotTowards(before, v, e) ==
    \/ v.kind = "none"
    \/ /\ v.kind = "vector"
       /\ IF before.kind = "none" THEN Dot(v.v, e) <= 0
          ELSE CosLeq(v.v, before.v, e)

\* C18: an interaction of negative weight on product p leaves the user's
\* long-term vector no more similar to p than it was, whatever the user's
\* embedding was before, none included.
C18_NegativeNeverMovesToward ==
    /\ (/\ callOut.op = "process_event"
        /\ handler_weight(callIn.type) < 0
        /\ callOut.result.long_term_updated)
           => NotTowards(callIn.current, callOut.result.long_term, Emb(callIn.product))
    /\ (/\ callOut.op = "update_from_interaction"
        /\ warm_weight(callIn.type) < 0
        /\ callOut.result.success)
           => NotTowards(callIn.current, callOut.result.updated_embedding,
                         Emb(callIn.product))

\* C19: the warm update of an embedding with an interaction of weight zero
\* raises nothing and returns the embedding it was given; process_event
\* leaves the long-term embedding of a zero-weight interaction alone.
C19_ZeroWeightLeavesEmbedding ==
    /\ (/\ callOut.op = "update_embedding"
        /\ callIn.weight = 0
        /\ callIn.current.kind = "vector")
           => callOut.result = Value(Vector(Direction(callIn.current.v)))
    /\ (/\ callOut.op = "process_event"
        /\ handler_weight(callIn.type) = 0)
           => /\ ~callOut.result.long_term_updated
              /\ callOut.result.long_term = callIn.current


\* The user context of the call carries neither embedding.
NoProfile ==
    /\ callIn.user_context.long_term_embedding.kind = "none"
    /\ callIn.user_context.session_embedding.kind = "none"

\* What recommend_for_user hands a user who has a profile when the search
\* finds nothing.
OrdinaryEmpty ==
    recommend_for_user([long_term_embedding |-> Vector(UnitVectors[1]),
                        session_embedding |-> NoVector, is_anonymous |-> FALSE],
                       callIn.k, callIn.context, callIn.use_ranking, <<>>)

\* C20: without a long-term and a session embedding blend returns no vector,
\* success false, blend_type "none" and error "no_embeddings", and the
\* response of recommend_for_user differs from that of a search that found
\* nothing.
C20_NoProfileSurfaced ==
    /\ (callOut.op = "blend" /\ NoProfile)
           => /\ callOut.result.blended_embedding = NoVector
              /\ ~callOut.result.success
              /\ callOut.result.blend_type = "none"
              /\ callOut.result.error = "no_embeddings"
    /\ (callOut.op = "recommend_for_user" /\ NoProfile
        /\ ~callIn.user_context.is_anonymous)
           => to_dict(callOut.result) # to_dict(OrdinaryEmpty)


\* Exactly one of the two embeddings of the call is there.
OnlyOneEmbedding ==
    (callIn.user_context.long_term_embedding.kind = "none")
        # (callIn.user_context.session_embedding.kind = "none")

\* C21: when exactly one of the long-term and session embeddings exists,
\* blend returns that vector as it is, for every context and alpha, with
\* blend_type long_term_only or session_only.
C21_OneSidedBlendIsThatVector ==
    (callOut.op = "blend" /\ OnlyOneEmbedding)
        => /\ callOut.result.success
           /\ IF callIn.user_context.long_term_embedding.kind # "none"
              THEN /\ callOut.result.blended_embedding
                          = callIn.user_context.long_term_embedding
                   /\ callOut.result.blend_type = "long_term_only"
              ELSE /\ callOut.result.blended_embedding
                          = callIn.user_context.session_embedding
                   /\ callOut.result.blend_type = "session_only"

C21_Witness ==
    /\ callOut.op = "blend"
    /\ callIn.user_context.long_term_embedding = Vector(UnitVectors[3])
    /\ callIn.user_context.session_embedding = NoVector
    /\ callIn.context = "feed"
    /\ callOut.result.blended_embedding = Vector(UnitVectors[3])
    /\ callOut.result.blend_type = "long_term_only"


\* C22: rank_results returns the candidates it was given, each with its
\* weighted final score, ordered by final score descending and ranked
\* 0..n-1 in that order, whichever score maps are supplied.
C22_RankedByFinalScore ==
    callOut.op = "rank_results"
        => LET given == callIn.results
               ranked == callOut.result
           IN  /\ Len(ranked) = Len(given)
               /\ {ranked[i].product_id : i \in DOMAIN ranked}
                      = {given[i].product_id : i \in DOMAIN given}
               /\ \A i \in DOMAIN ranked :
                      /\ ranked[i].rank = i - 1
                      /\ \E j \in DOMAIN given :
                             /\ given[j].product_id = ranked[i].product_id
                             /\ ranked[i].final_score
                                    = final_score(given[j], callIn.popularity_scores,
                                                  EmptyArr, EmptyArr)
               /\ \A i, j \in DOMAIN ranked :
                      i < j => ranked[i].final_score >= ranked[j].final_score

\* Ranking moved the last of three candidates to the front, with no
\* popularity map supplied.
C22_Witness ==
    /\ callOut.op = "rank_results"
    /\ Len(callIn.results) = 3
    /\ DOMAIN callIn.popularity_scores = {}
    /\ callOut.result[1].product_id = callIn.results[3].product_id
    /\ callOut.result[1].final_score > callOut.result[2].final_score


\* The list holds at most k results, ranked 0, 1, .. in the order they
\* stand, by non-increasing similarity.
WellRanked(results, k) ==
    /\ Len(results) <= k
    /\ \A i \in DOMAIN results : results[i].rank = i - 1
    /\ \A i, j \in DOMAIN results :
           i < j => results[i].similarity >= results[j].similarity

\* C23: the result list search and search_by_product_id return, with or
\* without exclude_self, has at most k entries, ranked exactly 0..n-1 in
\* order of non-increasing similarity.
C23_ResultsRankedFromZero ==
    (/\ pc[Reader] = "done"
     /\ loc[Reader].op \in {"search", "search_by_product_id"}
     /\ loc[Reader].outcome = "ok")
        => WellRanked(loc[Reader].results,
                      IF loc[Reader].op = "search_by_product_id" /\ loc[Reader].exclude_self
                      THEN loc[Reader].k - 1 ELSE loc[Reader].k)


\* C24: a rebuild whose snapshot could not be written to disk has failed
\* and has left the active index, id_mapping, reverse_mapping and
\* last_rebuild as they were before it.
C24_PersistBeforeActivate ==
    (/\ pc[Writer] = "done"
     /\ loc[Writer].op = "build_index_from_db"
     /\ loc[Writer].outcome = "OSError")
        => /\ loc[Writer].before[1] = index
           /\ loc[Writer].before[2] = id_mapping
           /\ loc[Writer].before[3] = reverse_mapping
           /\ loc[Writer].before[4] = last_rebuild


\* C25: whichever threads construct the manager at the same time, its state
\* is initialised once: __init__ never sets a loaded index back to None and
\* the manager keeps the lock it was first given.
C25_InitialisedOnce ==
    /\ mgr.inits <= 1
    /\ mgr.locks <= 1
    /\ ~mgr.reset_loaded


\* The files on disk are what save_index wrote for this index and mapping.
SavedFrom(ix, mapping) ==
    /\ ix.loaded
    /\ disk.index.exists /\ disk.index.content = ix.vecs
    /\ disk.mapping.exists
    /\ disk.mapping.content = [i \in DOMAIN mapping |-> Str(mapping[i])]

\* C26: loading back the snapshot that was saved for the active build gives
\* the id_mapping and reverse_mapping of that build: get_faiss_position
\* answers for every product id as it did before the reload.
C26_ReloadKeepsMappings ==
    (/\ pc[Writer] = "done"
     /\ loc[Writer].op = "load_index_from_disk"
     /\ loc[Writer].outcome = "ok"
     /\ SavedFrom(loc[Writer].before[1], loc[Writer].before[2]))
        => /\ id_mapping = loc[Writer].before[2]
           /\ reverse_mapping = loc[Writer].before[3]


\* C27: the confidence stored for the user is min(interaction_count / 20, 1)
\* of the stored count, lies in [0, 1] (0..20 twentieths), and no update
\* lowers it.
C27_ConfidenceFollowsCount ==
    [][/\ user_embedding'.confidence_score
              = Confidence(user_embedding'.interaction_count)
       /\ user_embedding'.confidence_score \in 0..20
       /\ user_embedding'.confidence_score >= user_embedding.confidence_score
      ]_profileVars


Cross(a, b) == a[1] * b[2] - a[2] * b[1]

\* The profile the warm update returns for an interaction of this type.
ProfileAfter(type) ==
    warm_update_from_interaction(callIn.current, Emb(callIn.product),
                                 type).updated_embedding.v

\* On the arc from cur to e, r2 lies strictly nearer to e than r1 does: the
\* sine of the angle from cur, over the sine of the angle to e, is larger.
MovedFurther(cur, e, r1, r2) ==
    Abs(Cross(cur, r2)) * Abs(Cross(r1, e)) > Abs(Cross(cur, r1)) * Abs(Cross(r2, e))

\* C28: for a profile that lies neither at the product nor opposite to it,
\* the warm update moves the profile for a view, further for a like,
\* further again for an add-to-cart and furthest for a purchase.
C28_StrongerMovesFurther ==
    (/\ callOut.op = "update_from_interaction"
     /\ callIn.current.kind = "vector"
     /\ Cross(callIn.current.v, Emb(callIn.product)) # 0)
        => LET cur == callIn.current.v
               e == Emb(callIn.product)
           IN  /\ Cross(cur, ProfileAfter("view")) # 0
               /\ MovedFurther(cur, e, ProfileAfter("view"), ProfileAfter("like"))
               /\ MovedFurther(cur, e, ProfileAfter("like"), ProfileAfter("add_to_cart"))
               /\ MovedFurther(cur, e, ProfileAfter("add_to_cart"),
                               ProfileAfter("purchase"))


\* C29: when process_event has handled a positive interaction whose product
\* embedding was available, with update_session on, its result reports
\* session_updated and the cache holds a session embedding for the user.
C29_PositiveEventUpdatesSession ==
    \A h \in Handlers :
        (/\ hpc[h] = "done"
         /\ hloc[h].op = "process_event"
         /\ hloc[h].type \in PositiveTypes)
            => /\ hloc[h].session_updated
               /\ cache.session # NoEmbedding


(***************************************************************************)
(* SearchService: the response built from the results of a search, one    *)
(* page of them.                                                           *)
(***************************************************************************)
MaxResults == 3  \* results a search hands to pagination
MaxOffset == 4   \* largest request.offset
MaxLimit == 3    \* largest request.limit

Least(a, b) == IF a < b THEN a ELSE b

\* The SearchResults object a search mode returned for request.limit = limit:
\* the products found, ranked from 0, out of k = limit * 2 asked for.
FoundResults(ids, limit) ==
    [results |-> [i \in 1..Len(ids) |-> [product_id |-> ids[i], rank |-> i - 1]],
     k |-> limit * 2,
     total_found |-> Len(ids)]

\* SearchService._paginate_results.  returned is the object the method
\* returns; results is the argument object as the method leaves it: emptied
\* when the offset lies beyond it, and otherwise with the sliced entries,
\* which the page shares with it, ranked again.
paginate_results(results, offset, limit) ==
    IF offset >= Len(results.results)
    THEN LET emptied == [results EXCEPT !.results = <<>>, !.total_found = 0]
         IN  [returned |-> emptied, results |-> emptied]
    ELSE LET n == Least(limit, Len(results.results) - offset)
             paginated == [i \in 1..n |->
                              [results.results[offset + i] EXCEPT !.rank = i - 1]]
         IN  [returned |-> [results |-> paginated, k |-> limit,
                            total_found |-> Len(paginated)],
              results |-> [results EXCEPT !.results =
                              [j \in 1..Len(results.results) |->
                                  IF j > offset /\ j <= offset + n
                                  THEN paginated[j - offset]
                                  ELSE results.results[j]]]]

\* SearchService.search, from pagination on: the response is built with
\* total_results = len(results.results) once _paginate_results has run.
search_response(results, offset, limit) ==
    LET paged == paginate_results(results, offset, limit)
    IN  [results |-> paged.returned,
         total_results |-> Len(paged.results.results),
         offset |-> offset,
         limit |-> limit]

PaginateInit ==
    /\ \E ids \in SeqsUpTo(Products, MaxResults), offset \in 0..MaxOffset,
          limit \in 1..MaxLimit :
           callIn = [op |-> "search", results |-> FoundResults(ids, limit),
                     offset |-> offset, limit |-> limit]
    /\ callOut = [op |-> "none"]

ServiceSearch ==
    /\ callIn.op = "search"
    /\ callOut' = [op |-> "search",
                   response |-> search_response(callIn.results, callIn.offset,
                                                callIn.limit)]
    /\ UNCHANGED <<callIn, indexVars, filterVars, sessionVars, feedbackVars,
                   profileVars, redisVars>>

PaginateResults ==
    /\ callIn.op = "search"
    /\ callOut' = [op |-> "paginate_results",
                   result |-> paginate_results(callIn.results, callIn.offset,
                                               callIn.limit)]
    /\ UNCHANGED <<callIn, indexVars, filterVars, sessionVars, feedbackVars,
                   profileVars, redisVars>>

(***************************************************************************)
(* SpecPaginate: a result list is paged and the response built.            *)
(***************************************************************************)
InitPaginate == AtRest /\ PaginateInit

NextPaginate ==
    \/ ServiceSearch
    \/ PaginateResults

SpecPaginate == InitPaginate /\ [][NextPaginate]_vars

\* C30: the response's total_results is the number of results the search
\* found before pagination, also when the offset lies at or beyond the end
\* of the list, and the page holds the results at positions offset up to
\* offset + limit - 1, ranked 0..n-1.
C30_TotalCountsAllResults ==
    callOut.op = "search"
        => LET found == callIn.results.results
               page == callOut.response.results.results
               n == IF callIn.offset >= Len(found) THEN 0
                    ELSE Least(callIn.limit, Len(found) - callIn.offset)
           IN  /\ callOut.response.total_results = Len(found)
               /\ Len(page) = n
               /\ \A i \in 1..n :
                      /\ page[i].product_id = found[callIn.offset + i].product_id
                      /\ page[i].rank = i - 1

=============================================================================
